---- MODULE Spec2Model ----
(***************************************************************************)
(* A model of the Toggl Track MCP server (src/server.py): the backend      *)
(* client (TogglClient), the tool handlers built on it, the date-range     *)
(* defaults of the listing tools and the start/stop timer flow.            *)
(*                                                                         *)
(* One tool invocation is a sequence of atomic segments; a segment is the  *)
(* code between two awaits on the backend.  The backend's answer to each   *)
(* request (status, payload, error body) is a nondeterministic input.      *)
(* Python strings that the code slices, parses or compares (the dates)     *)
(* are sequences of character codes.                                       *)
(***************************************************************************)
EXTENDS Integers, Sequences, FiniteSets, TLC

VARIABLES
    family,      \* the tools the host calls in this behaviour
    token,       \* os.getenv("TOGGL_API_TOKEN") is set
    projects,    \* backend: the project list, in backend order
    workspaces,  \* backend: the workspace list, in backend order
    entries,     \* backend: the time entries created by start mutations
    tasks,       \* backend: the tasks created by create-task mutations
    tool,        \* the tool of the current (or last) invocation
    args,        \* its arguments
    pc,          \* the pending backend call of the invocation, "returned" when
                 \* the host holds its result, "idle" between invocations
    session,     \* TogglClient.session of the invocation's client
    loc,         \* the handler's local variables
    reqs,        \* the requests the invocation has issued, with their outcomes
    result,      \* the text the last invocation returned
    propagated   \* an exception left the last invocation uncaught

vars == <<family, token, projects, workspaces, entries, tasks,
          tool, args, pc, session, loc, reqs, result, propagated>>

backend == <<projects, workspaces, entries, tasks>>

-----------------------------------------------------------------------------
(* Bounds of the model. *)

MaxEntries == 2   \* start mutations the backend accepts in one behaviour
MaxTasks == 1     \* create-task mutations the backend accepts
MaxTicks == 1     \* midnights between the first and the last date the clock gives

-----------------------------------------------------------------------------
(* Python values. *)

NoneId == 0                      \* None, where the code holds an id or None
PyNone == [tag |-> "None"]
PyDict(d) == [tag |-> "dict", val |-> d]
PyList(s) == [tag |-> "list", val |-> s]
\* a parsed JSON value that is not of the shape the handler reads
PyMalformed == [tag |-> "malformed"]

\* bool(v) of a client result
Truthy(v) ==
    CASE v.tag = "None" -> FALSE
      [] v.tag = "list" -> Len(v.val) > 0
      [] OTHER -> TRUE

Returned(v) == [raised |-> FALSE, sent |-> TRUE, val |-> v]
Raised(e, wasSent) == [raised |-> TRUE, sent |-> wasSent, exc |-> e]

\* issubclass(cls, base) for the exception classes the code can meet
IsSubclass(cls, base) ==
    \/ cls = base
    \/ base = "Exception"
    \/ cls = "JSONDecodeError" /\ base = "ValueError"

-----------------------------------------------------------------------------
(* Characters and date strings. *)

Dash == 45
Zero == 48
Digit(n) == Zero + n
IsDigit(c) == c >= Zero /\ c <= Zero + 9
EmptyStr == << >>

IsLeap(y) == (y % 4 = 0 /\ y % 100 # 0) \/ y % 400 = 0

DaysInMonth(y, m) ==
    IF m = 2 THEN (IF IsLeap(y) THEN 29 ELSE 28)
    ELSE IF m \in {4, 6, 9, 11} THEN 30 ELSE 31

\* date(y, m, d) as a day number (days since 1970-01-01)
DaysFromCivil(y, m, d) ==
    LET yy  == IF m <= 2 THEN y - 1 ELSE y
        era == yy \div 400
        yoe == yy - era * 400
        mp  == IF m > 2 THEN m - 3 ELSE m + 9
        doy == (153 * mp + 2) \div 5 + d - 1
        doe == yoe * 365 + yoe \div 4 - yoe \div 100 + doy
    IN  era * 146097 + doe - 719468

\* the (y, m, d) of a day number
CivilFromDays(z) ==
    LET zz  == z + 719468
        era == zz \div 146097
        doe == zz - era * 146097
        yoe == (doe - doe \div 1460 + doe \div 36524 - doe \div 146096) \div 365
        doy == doe - (365 * yoe + yoe \div 4 - yoe \div 100)
        mp  == (5 * doy + 2) \div 153
        d   == doy - (153 * mp + 2) \div 5 + 1
        m   == IF mp < 10 THEN mp + 3 ELSE mp - 9
        y   == yoe + era * 400 + (IF m <= 2 THEN 1 ELSE 0)
    IN  [y |-> y, m |-> m, d |-> d]

TwoDigits(n) == <<Digit(n \div 10), Digit(n % 10)>>
FourDigits(n) ==
    <<Digit(n \div 1000), Digit((n \div 100) % 10), Digit((n \div 10) % 10), Digit(n % 10)>>

\* datetime.strftime("%Y-%m-%d") of a day number
Strftime(z) ==
    LET c == CivilFromDays(z)
    IN  FourDigits(c.y) \o <<Dash>> \o TwoDigits(c.m) \o <<Dash>> \o TwoDigits(c.d)

\* the number a run of digits denotes
RECURSIVE DigitsValue(_)
DigitsValue(s) ==
    IF Len(s) = 0 THEN 0
    ELSE 10 * DigitsValue(SubSeq(s, 1, Len(s) - 1)) + (s[Len(s)] - Zero)

AllDigits(s) == \A i \in 1..Len(s) : IsDigit(s[i])

\* datetime.strptime(s, "%Y-%m-%d"): %Y is four digits, %m and %d one or two
\* digits; the value is [ok, day], and ok is FALSE where strptime raises
\* ValueError
Strptime(s) ==
    LET dashes == {i \in 1..Len(s) : s[i] = Dash}
        bad == [ok |-> FALSE, day |-> 0]
    IN  IF Cardinality(dashes) # 2 THEN bad
        ELSE
          LET i1 == CHOOSE i \in dashes : \A j \in dashes : i <= j
              i2 == CHOOSE i \in dashes : \A j \in dashes : j <= i
              ys == SubSeq(s, 1, i1 - 1)
              ms == SubSeq(s, i1 + 1, i2 - 1)
              ds == SubSeq(s, i2 + 1, Len(s))
              y  == DigitsValue(ys)
              m  == DigitsValue(ms)
              d  == DigitsValue(ds)
          IN  IF /\ Len(ys) = 4 /\ Len(ms) \in {1, 2} /\ Len(ds) \in {1, 2}
                 /\ AllDigits(ys) /\ AllDigits(ms) /\ AllDigits(ds)
                 /\ y >= 1 /\ m >= 1 /\ m <= 12
                 /\ d >= 1 /\ d <= DaysInMonth(y, m)
              THEN [ok |-> TRUE, day |-> DaysFromCivil(y, m, d)]
              ELSE bad

-----------------------------------------------------------------------------
(* The backend's answers. *)

Statuses == {200, 201, 404, 500}
ErrBodies == {"forbidden", "unavailable"}
\* the body of a 2xx answer: the JSON the handler expects, a body that is not
\* JSON, or JSON of another shape
Payloads == {"valid", "not_json", "wrong_shape"}

Responses ==
    {[status |-> 200, payload |-> p, text |-> ""] : p \in Payloads}
    \cup {[status |-> 201, payload |-> "valid", text |-> ""]}
    \cup {[status |-> s, payload |-> "none", text |-> t] : s \in {404, 500}, t \in ErrBodies}

Exc(cls, msg) == [cls |-> cls, msg |-> msg, status |-> 0, text |-> ""]

\* a mutant of BackendError: the body of the answer is dropped
BackendError_nobody(msg, resp) ==
    [cls |-> "Exception", msg |-> msg, status |-> resp.status, text |-> ""]

\* Exception(f"Failed to ...: {response.status} - {error_text}")
BackendError(msg, resp) ==
    [cls |-> "Exception", msg |-> msg, status |-> resp.status, text |-> resp.text]

\* await response.json()
ResponseJson(resp, value) ==
    CASE resp.payload = "not_json" ->
            Raised(Exc("JSONDecodeError", "Expecting value"), TRUE)
      [] resp.payload = "wrong_shape" -> Returned(PyMalformed)
      [] OTHER -> Returned(value)

-----------------------------------------------------------------------------
(* TogglClient.  Each method takes the client's session, the backend's     *)
(* answer and the value a well-formed answer carries, and gives what the   *)
(* method returns or raises, with `sent` telling whether a request went    *)
(* out.                                                                    *)

\* TogglClient.__init__: self.session = None
NewSession == "none"

\* TogglClient.__aenter__
AEnter(s) == "open"

\* a mutant of AExit: the session is left open
AExit_leak(s) == s

\* TogglClient.__aexit__: if self.session: await self.session.close()
AExit(s) == IF s = "none" THEN s ELSE "closed"

\* `if not self.session: raise RuntimeError(...)`, then the request on the
\* aiohttp session, which refuses a closed session
SessionGuard(s) ==
    CASE s = "none" ->
            Raised(Exc("RuntimeError", "Client not initialized. Use async context manager."), FALSE)
      [] s = "closed" -> Raised(Exc("RuntimeError", "Session is closed"), FALSE)
      [] OTHER -> Returned(PyNone)

TogglClient_get_projects(s, resp, value) ==
    IF SessionGuard(s).raised THEN SessionGuard(s)
    ELSE IF resp.status = 200 THEN ResponseJson(resp, value)
    ELSE Raised(BackendError("Failed to get projects", resp), TRUE)

TogglClient_get_workspaces(s, resp, value) ==
    IF SessionGuard(s).raised THEN SessionGuard(s)
    ELSE IF resp.status = 200 THEN ResponseJson(resp, value)
    ELSE Raised(BackendError("Failed to get workspaces", resp), TRUE)

\* the client-side filter of line 105-106: project_ids is None or a list
FilterByProject(es, project_ids) ==
    IF Len(project_ids) = 0 THEN es
    ELSE SelectSeq(es, LAMBDA e : \E i \in 1..Len(project_ids) : project_ids[i] = e.project_id)

TogglClient_get_time_entries(s, resp, value, project_ids) ==
    IF SessionGuard(s).raised THEN SessionGuard(s)
    ELSE IF resp.status = 200 THEN
        LET j == ResponseJson(resp, value)
        IN  IF j.raised \/ j.val.tag # "list" THEN j
            ELSE Returned(PyList(FilterByProject(j.val.val, project_ids)))
    ELSE Raised(BackendError("Failed to get time entries", resp), TRUE)

\* a mutant of get_current_time_entry: a 404 is an error like any other
TogglClient_get_current_time_entry_no404(s, resp, value) ==
    IF SessionGuard(s).raised THEN SessionGuard(s)
    ELSE IF resp.status = 200 THEN ResponseJson(resp, value)
    ELSE Raised([cls |-> "Exception", msg |-> "Failed to get current time entry",
                 status |-> resp.status, text |-> resp.text], TRUE)

TogglClient_get_current_time_entry(s, resp, value) ==
    IF SessionGuard(s).raised THEN SessionGuard(s)
    ELSE IF resp.status = 200 THEN ResponseJson(resp, value)
    ELSE IF resp.status = 404 THEN Returned(PyNone)
    ELSE Raised(BackendError("Failed to get current time entry", resp), TRUE)

TogglClient_start_timer(s, resp, value) ==
    IF SessionGuard(s).raised THEN SessionGuard(s)
    ELSE IF resp.status \in {200, 201} THEN ResponseJson(resp, value)
    ELSE Raised(BackendError("Failed to start timer", resp), TRUE)

TogglClient_stop_timer(s, resp, value) ==
    IF SessionGuard(s).raised THEN SessionGuard(s)
    ELSE IF resp.status = 200 THEN ResponseJson(resp, value)
    ELSE Raised(BackendError("Failed to stop timer", resp), TRUE)

TogglClient_get_tasks(s, resp, value) ==
    IF SessionGuard(s).raised THEN SessionGuard(s)
    ELSE IF resp.status = 200 THEN ResponseJson(resp, value)
    ELSE Raised(BackendError("Failed to get tasks", resp), TRUE)

TogglClient_create_task(s, resp, value) ==
    IF SessionGuard(s).raised THEN SessionGuard(s)
    ELSE IF resp.status \in {200, 201} THEN ResponseJson(resp, value)
    ELSE Raised(BackendError("Failed to create task", resp), TRUE)

-----------------------------------------------------------------------------
(* The data the model runs on. *)

ProjectLists ==
    { << >>,
      << [id |-> 1, name |-> "Alpha", workspace_id |-> 10],
         [id |-> 2, name |-> "Beta",  workspace_id |-> 10],
         [id |-> 3, name |-> "Alpha", workspace_id |-> 20] >> }

WorkspaceLists ==
    { << >>,
      << [id |-> 10, name |-> "Main"], [id |-> 20, name |-> "Side"] >> }

\* the project_name arguments: not supplied, a listed name, an unlisted name
ProjectNames == {"", "Alpha", "Nope"}

\* the duration the backend reports for an entry it has just stopped
StopDurations == {3660}

\* the workspaces another client of the same account may start a timer in
ForeignWorkspaces == {30}

\* date(2024, 3, 1): the first date datetime.now() can give
FirstDay == DaysFromCivil(2024, 3, 1)

\* the dates datetime.now() can give an invocation (days since 1970-01-01)
Todays == FirstDay..(FirstDay + MaxTicks)

NoArgs == [start_date |-> EmptyStr, end_date |-> EmptyStr, project_name |-> ""]
NameArgs(n) == [start_date |-> EmptyStr, end_date |-> EmptyStr, project_name |-> n]

LocInit ==
    [ start_date |-> EmptyStr, end_date |-> EmptyStr,
      api_start_date |-> EmptyStr, api_end_date |-> EmptyStr,
      single_day_filter |-> EmptyStr,
      current_entry |-> PyNone,
      workspace_id |-> NoneId,
      project_id |-> NoneId,
      stopped |-> PyNone,
      idx |-> 0,
      total_tasks |-> 0,
      sections |-> << >>,
      now |-> 0 ]          \* the date datetime.now() gave the invocation

NoResult == [text |-> ""]

\* No invocation reads what an earlier one left, and the listing tools
\* neither read nor write the entries and tasks the timer and task tools
\* work on: a behaviour calls the tools of one family.
Families == {"listing", "control"}

Init ==
    /\ family \in Families
    /\ token \in BOOLEAN
    /\ projects \in ProjectLists
    /\ workspaces \in WorkspaceLists
    /\ entries = << >>
    /\ tasks = << >>
    /\ tool = "none"
    /\ args = NoArgs
    /\ pc = "idle"
    /\ session = NewSession
    /\ loc = LocInit
    /\ reqs = << >>
    /\ result = NoResult
    /\ propagated = FALSE

-----------------------------------------------------------------------------
(* The backend. *)

Running(es) == {i \in 1..Len(es) : es[i].duration = -1}

Max(S) == CHOOSE x \in S : \A y \in S : y <= x
Min(S) == CHOOSE x \in S : \A y \in S : x <= y

\* GET /me/time_entries/current: the running entry (the latest one, should
\* there be several), or null
BackendCurrent(es) ==
    IF Running(es) = {} THEN PyNone ELSE PyDict(es[Max(Running(es))])

\* POST /workspaces/{workspace_id}/time_entries with the body of lines
\* 142-154 (duration -1).  The backend accepts a start while an entry is
\* running; whether it closes the running entry is its own choice (autoStop).
BackendStart(es, workspace_id, project_id, autoStop, d) ==
    LET closed == [i \in 1..Len(es) |->
                     IF autoStop /\ es[i].duration = -1
                     THEN [es[i] EXCEPT !.duration = d] ELSE es[i]]
    IN  Append(closed, [id |-> Len(es) + 1, workspace_id |-> workspace_id,
                        project_id |-> project_id, duration |-> -1])

\* PATCH /workspaces/{workspace_id}/time_entries/{id}/stop: closes that entry
\* if it is running in that workspace
BackendStop(es, workspace_id, id, d) ==
    [i \in 1..Len(es) |->
        IF es[i].id = id /\ es[i].workspace_id = workspace_id /\ es[i].duration = -1
        THEN [es[i] EXCEPT !.duration = d] ELSE es[i]]

\* the entry with this id, as the stop answer carries it
BackendEntry(es, id) ==
    IF \E i \in 1..Len(es) : es[i].id = id
    THEN PyDict(es[CHOOSE i \in 1..Len(es) : es[i].id = id])
    ELSE PyMalformed

\* POST /workspaces/{workspace_id}/projects/{project_id}/tasks
BackendCreateTask(ts, workspace_id, project_id) ==
    Append(ts, [id |-> Len(ts) + 1, project_id |-> project_id,
                workspace_id |-> workspace_id])

\* GET /workspaces/{workspace_id}/projects/{project_id}/tasks
BackendTasks(ts, project_id) ==
    SelectSeq(ts, LAMBDA t : t.project_id = project_id)

-----------------------------------------------------------------------------
(* The parts the tool handlers share. *)

\* a mutant of get_api_token: the token is not checked
get_api_token_unchecked(tok) == Returned(PyNone)

\* get_api_token
get_api_token(tok) ==
    IF ~tok
    THEN Raised(Exc("ValueError", "TOGGL_API_TOKEN environment variable is required."), FALSE)
    ELSE Returned(PyNone)

ErrorPrefix(t) ==
    CASE t = "get_projects" -> "Error fetching projects: "
      [] t = "get_workspaces" -> "Error fetching workspaces: "
      [] t \in {"get_time_entries", "get_time_entries_fixed"} -> "Error fetching time entries: "
      [] t = "get_time_summary" -> "Error generating time summary: "
      [] t = "get_current_timer" -> "Error fetching current timer: "
      [] t = "start_timer" -> "Error starting timer: "
      [] t = "stop_current_timer" -> "Error stopping timer: "
      [] t = "search_time_entries" -> "Error searching time entries: "
      [] t = "get_project_tasks" -> "Error fetching tasks: "
      [] t = "create_project_task" -> "Error creating task: "
      [] OTHER -> "Error fetching all tasks: "

\* a mutant of ExceptClauses: the `except Exception` clause is missing
ExceptClauses_nocatchall(t, e) ==
    IF IsSubclass(e.cls, "ValueError")
    THEN [caught |-> TRUE, res |-> [text |-> "Configuration error: ", exc |-> e]]
    ELSE [caught |-> FALSE, res |-> NoResult]

\* the two except clauses that close every tool: ValueError first, then
\* Exception
ExceptClauses(t, e) ==
    IF IsSubclass(e.cls, "ValueError")
    THEN [caught |-> TRUE, res |-> [text |-> "Configuration error: ", exc |-> e]]
    ELSE IF IsSubclass(e.cls, "Exception")
    THEN [caught |-> TRUE, res |-> [text |-> ErrorPrefix(t), exc |-> e]]
    ELSE [caught |-> FALSE, res |-> NoResult]

\* the use of a parsed answer of the wrong shape (a missing method or a
\* comparison of the wrong types)
ShapeError == Exc("TypeError", "unexpected payload")

\* a new invocation of tool t with arguments a
Begin(t, a) ==
    /\ pc = "idle"
    /\ tool' = t
    /\ args' = a
    /\ reqs' = << >>
    /\ UNCHANGED <<family, token>>

\* an exception raised before the client exists
EnterFail(t, e) ==
    /\ pc' = "returned"
    /\ session' = NewSession
    /\ loc' = LocInit
    /\ result' = ExceptClauses(t, e).res
    /\ propagated' = ~ExceptClauses(t, e).caught

\* `async with TogglClient(api_token) as client:` reached, first call is p
EnterWith(p, l) ==
    /\ pc' = p
    /\ session' = AEnter(NewSession)
    /\ loc' = l
    /\ result' = NoResult
    /\ propagated' = FALSE

\* the handler of a tool without date arguments, up to its first call
Enter(t, a, p) ==
    /\ family = "control"
    /\ Begin(t, a)
    /\ UNCHANGED backend
    /\ IF get_api_token(token).raised
       THEN EnterFail(t, get_api_token(token).exc)
       ELSE EnterWith(p, LocInit)

\* a request that went out, with the client's outcome
Log(op, method, params, resp, out) ==
    IF out.sent
    THEN Append(reqs, [op |-> op, method |-> method, params |-> params,
                       open |-> (session = "open"), status |-> resp.status,
                       text |-> resp.text, out |-> out])
    ELSE reqs

Segment(p) ==
    /\ pc = p
    /\ UNCHANGED <<family, token, tool, args>>

\* the handler goes on to its next call
Goto(p, l) ==
    /\ pc' = p
    /\ loc' = l
    /\ UNCHANGED <<session, result, propagated>>

\* a return inside the `async with` block
Return(r, l) ==
    /\ pc' = "returned"
    /\ loc' = l
    /\ session' = AExit(session)
    /\ result' = r
    /\ propagated' = FALSE

\* a mutant of Throw: the call that failed is tried again
Throw_retry(e, l) ==
    /\ pc' = pc
    /\ loc' = l
    /\ UNCHANGED <<session, result, propagated>>

\* an exception inside the `async with` block
Throw(e, l) ==
    /\ pc' = "returned"
    /\ loc' = l
    /\ session' = AExit(session)
    /\ result' = ExceptClauses(tool, e).res
    /\ propagated' = ~ExceptClauses(tool, e).caught

\* what a failed call, or an answer of the wrong shape, raises
Failure(out) == IF out.raised THEN out.exc ELSE ShapeError
Failed(out) == out.raised \/ out.val.tag = "malformed"

\* [p.get("name", "") for p in projects]
Names(ps) == [i \in 1..Len(ps) |-> ps[i].name]

\* a mutant of FirstMatch: an unknown name falls back to the first project
FirstMatch_fallback(ps, name) ==
    LET hits == {i \in 1..Len(ps) : ps[i].name = name}
    IN  IF Len(ps) = 0 THEN NoneId
        ELSE IF hits = {} THEN ps[1].id ELSE ps[Min(hits)].id

\* the id of the first project with this name (the for/break loops), or None
FirstMatch(ps, name) ==
    LET hits == {i \in 1..Len(ps) : ps[i].name = name}
    IN  IF hits = {} THEN NoneId ELSE ps[Min(hits)].id

\* {p.get("name", ""): p.get("id") for p in projects}.get(name): a later
\* project with the same name replaces an earlier one
ProjectMapGet(ps, name) ==
    LET hits == {i \in 1..Len(ps) : ps[i].name = name}
    IN  IF hits = {} THEN NoneId ELSE ps[Max(hits)].id

RECURSIVE Dedup(_)
Dedup(s) ==
    IF Len(s) = 0 THEN << >>
    ELSE LET r == Dedup(SubSeq(s, 1, Len(s) - 1))
         IN  IF \E i \in 1..Len(r) : r[i] = s[Len(s)] THEN r ELSE Append(r, s[Len(s)])

\* project_map.keys(): each name once, in the order of its first project
ProjectMapKeys(ps) == Dedup(Names(ps))

\* a mutant of NotFound: a generic text, without the name and the list
NotFound_generic(name, available) ==
    [text |-> "Project not found.", name |-> "", available |-> << >>]

NotFound(name, available) ==
    [text |-> "Project not found. Available projects: ", name |-> name, available |-> available]

-----------------------------------------------------------------------------
(* get_projects, get_workspaces *)

get_projects ==
    Enter("get_projects", NoArgs, "get_projects_projects")

get_projects_projects ==
    /\ Segment("get_projects_projects")
    /\ UNCHANGED backend
    /\ \E resp \in Responses :
        LET out == TogglClient_get_projects(session, resp, PyList(projects))
        IN  /\ reqs' = Log("get_projects", "GET", << >>, resp, out)
            /\ IF Failed(out) THEN Throw(Failure(out), loc)
               ELSE IF ~Truthy(out.val)
               THEN Return([text |-> "No projects found in your Toggl Track account."], loc)
               ELSE Return([text |-> "Your Toggl Track Projects:", items |-> out.val.val], loc)

get_workspaces ==
    Enter("get_workspaces", NoArgs, "get_workspaces_workspaces")

get_workspaces_workspaces ==
    /\ Segment("get_workspaces_workspaces")
    /\ UNCHANGED backend
    /\ \E resp \in Responses :
        LET out == TogglClient_get_workspaces(session, resp, PyList(workspaces))
        IN  /\ reqs' = Log("get_workspaces", "GET", << >>, resp, out)
            /\ IF Failed(out) THEN Throw(Failure(out), loc)
               ELSE IF ~Truthy(out.val)
               THEN Return([text |-> "No workspaces found in your Toggl Track account."], loc)
               ELSE Return([text |-> "Your Toggl Track Workspaces:", items |-> out.val.val], loc)

-----------------------------------------------------------------------------
(* get_current_timer *)

get_current_timer ==
    Enter("get_current_timer", NoArgs, "get_current_timer_current")

CurrentTimerText(e) == [text |-> "**Currently Running Timer:**", entry |-> e]

\* a mutant of get_current_timer_current: the entry that was read is stopped
get_current_timer_current_stops ==
    /\ Segment("get_current_timer_current")
    /\ UNCHANGED <<projects, workspaces, tasks>>
    /\ \E resp \in Responses, d \in StopDurations :
        LET out == TogglClient_get_current_time_entry(session, resp, BackendCurrent(entries))
        IN  /\ reqs' = Log("get_current_time_entry", "GET", << >>, resp, out)
            /\ entries' = IF ~Failed(out) /\ Truthy(out.val)
                          THEN BackendStop(entries, out.val.val.workspace_id,
                                           out.val.val.id, d)
                          ELSE entries
            /\ IF Failed(out) THEN Throw(Failure(out), loc)
               ELSE IF ~Truthy(out.val)
               THEN Return([text |-> "No timer is currently running."], loc)
               ELSE IF out.val.val.project_id # NoneId
               THEN Goto("get_current_timer_projects", [loc EXCEPT !.current_entry = out.val])
               ELSE Return(CurrentTimerText(out.val.val), [loc EXCEPT !.current_entry = out.val])

get_current_timer_current ==
    /\ Segment("get_current_timer_current")
    /\ UNCHANGED backend
    /\ \E resp \in Responses :
        LET out == TogglClient_get_current_time_entry(session, resp, BackendCurrent(entries))
        IN  /\ reqs' = Log("get_current_time_entry", "GET", << >>, resp, out)
            /\ IF Failed(out) THEN Throw(Failure(out), loc)
               ELSE IF ~Truthy(out.val)
               THEN Return([text |-> "No timer is currently running."], loc)
               ELSE IF out.val.val.project_id # NoneId
               THEN Goto("get_current_timer_projects", [loc EXCEPT !.current_entry = out.val])
               ELSE Return(CurrentTimerText(out.val.val), [loc EXCEPT !.current_entry = out.val])

get_current_timer_projects ==
    /\ Segment("get_current_timer_projects")
    /\ UNCHANGED backend
    /\ \E resp \in Responses :
        LET out == TogglClient_get_projects(session, resp, PyList(projects))
        IN  /\ reqs' = Log("get_projects", "GET", << >>, resp, out)
            /\ IF Failed(out) THEN Throw(Failure(out), loc)
               ELSE Return(CurrentTimerText(loc.current_entry.val), loc)

-----------------------------------------------------------------------------
(* start_timer *)

start_timer ==
    \E n \in ProjectNames : Enter("start_timer", NameArgs(n), "start_timer_workspaces")

start_timer_workspaces ==
    /\ Segment("start_timer_workspaces")
    /\ UNCHANGED backend
    /\ \E resp \in Responses :
        LET out == TogglClient_get_workspaces(session, resp, PyList(workspaces))
        IN  /\ reqs' = Log("get_workspaces", "GET", << >>, resp, out)
            /\ IF Failed(out) THEN Throw(Failure(out), loc)
               ELSE IF ~Truthy(out.val)
               THEN Return([text |-> "No workspaces found. Cannot start timer."], loc)
               ELSE LET l == [loc EXCEPT !.workspace_id = out.val.val[1].id]
                    IN  IF args.project_name # ""
                        THEN Goto("start_timer_projects", l)
                        ELSE Goto("start_timer_start", l)

start_timer_projects ==
    /\ Segment("start_timer_projects")
    /\ UNCHANGED backend
    /\ \E resp \in Responses :
        LET out == TogglClient_get_projects(session, resp, PyList(projects))
        IN  /\ reqs' = Log("get_projects", "GET", << >>, resp, out)
            /\ IF Failed(out) THEN Throw(Failure(out), loc)
               ELSE LET project_id == FirstMatch(out.val.val, args.project_name)
                    IN  IF project_id = NoneId
                        THEN Return(NotFound(args.project_name, Names(out.val.val)), loc)
                        ELSE Goto("start_timer_start", [loc EXCEPT !.project_id = project_id])

start_timer_start ==
    /\ Segment("start_timer_start")
    /\ Len(entries) < MaxEntries
    /\ UNCHANGED <<projects, workspaces, tasks>>
    /\ \E resp \in Responses, autoStop \in BOOLEAN, d \in StopDurations :
        LET after == BackendStart(entries, loc.workspace_id, loc.project_id, autoStop, d)
            out == TogglClient_start_timer(session, resp, PyDict(after[Len(after)]))
        IN  /\ reqs' = Log("start_timer", "POST", <<loc.workspace_id, loc.project_id>>, resp, out)
            /\ entries' = IF out.sent /\ resp.status \in {200, 201} THEN after ELSE entries
            /\ IF Failed(out) THEN Throw(Failure(out), loc)
               ELSE Return([text |-> "**Timer Started Successfully!**", entry |-> out.val.val], loc)

-----------------------------------------------------------------------------
(* stop_current_timer *)

stop_current_timer ==
    Enter("stop_current_timer", NoArgs, "stop_current_timer_current")

stop_current_timer_current ==
    /\ Segment("stop_current_timer_current")
    /\ UNCHANGED backend
    /\ \E resp \in Responses :
        LET out == TogglClient_get_current_time_entry(session, resp, BackendCurrent(entries))
        IN  /\ reqs' = Log("get_current_time_entry", "GET", << >>, resp, out)
            /\ IF Failed(out) THEN Throw(Failure(out), loc)
               ELSE IF ~Truthy(out.val)
               THEN Return([text |-> "No timer is currently running."], loc)
               ELSE Goto("stop_current_timer_workspaces", [loc EXCEPT !.current_entry = out.val])

\* the loop of lines 651-655: the entry's workspace_id if it is in the list
\* a mutant of MatchWorkspace: the entry's workspace is taken unmatched
MatchWorkspace_unmatched(ws, entry_workspace_id) == entry_workspace_id

MatchWorkspace(ws, entry_workspace_id) ==
    IF \E i \in 1..Len(ws) : ws[i].id = entry_workspace_id
    THEN entry_workspace_id ELSE NoneId

stop_current_timer_workspaces ==
    /\ Segment("stop_current_timer_workspaces")
    /\ UNCHANGED backend
    /\ \E resp \in Responses :
        LET out == TogglClient_get_workspaces(session, resp, PyList(workspaces))
        IN  /\ reqs' = Log("get_workspaces", "GET", << >>, resp, out)
            /\ IF Failed(out) THEN Throw(Failure(out), loc)
               ELSE LET workspace_id ==
                            MatchWorkspace(out.val.val, loc.current_entry.val.workspace_id)
                    IN  IF workspace_id = NoneId
                        THEN Return([text |-> "Could not determine workspace for current timer."], loc)
                        ELSE Goto("stop_current_timer_stop", [loc EXCEPT !.workspace_id = workspace_id])

StoppedText(e, r) == [text |-> "**Timer Stopped Successfully!**", entry |-> e, stopped |-> r]

\* a mutant of StopTarget: the entry running now is looked up again
StopTarget_reread(l) ==
    IF Running(entries) # {}
    THEN <<entries[Max(Running(entries))].workspace_id, entries[Max(Running(entries))].id>>
    ELSE <<l.workspace_id, l.current_entry.val.id>>

\* the arguments of client.stop_timer: the workspace matched to the entry
\* that was read, and time_entry_id = current_entry.get("id")
StopTarget(l) == <<l.workspace_id, l.current_entry.val.id>>

stop_current_timer_stop ==
    /\ Segment("stop_current_timer_stop")
    /\ UNCHANGED <<projects, workspaces, tasks>>
    /\ \E resp \in Responses, d \in StopDurations :
        LET workspace_id == StopTarget(loc)[1]
            time_entry_id == StopTarget(loc)[2]
            after == BackendStop(entries, workspace_id, time_entry_id, d)
            out == TogglClient_stop_timer(session, resp, BackendEntry(after, time_entry_id))
        IN  /\ reqs' = Log("stop_timer", "PATCH", <<workspace_id, time_entry_id>>, resp, out)
            /\ entries' = IF out.sent /\ resp.status \in {200, 201} THEN after ELSE entries
            /\ IF Failed(out) THEN Throw(Failure(out), loc)
               ELSE IF loc.current_entry.val.project_id # NoneId
               THEN Goto("stop_current_timer_projects", [loc EXCEPT !.stopped = out.val])
               ELSE Return(StoppedText(loc.current_entry.val, out.val.val),
                           [loc EXCEPT !.stopped = out.val])

stop_current_timer_projects ==
    /\ Segment("stop_current_timer_projects")
    /\ UNCHANGED backend
    /\ \E resp \in Responses :
        LET out == TogglClient_get_projects(session, resp, PyList(projects))
        IN  /\ reqs' = Log("get_projects", "GET", << >>, resp, out)
            /\ IF Failed(out) THEN Throw(Failure(out), loc)
               ELSE Return(StoppedText(loc.current_entry.val, loc.stopped.val), loc)

-----------------------------------------------------------------------------
(* The date range of the listing tools. *)

ListingWindow == 7    \* timedelta(days=7)
SearchWindow == 30    \* timedelta(days=30)
ExpandDays == 2       \* timedelta(days=2)
DatePrefix == 10      \* start[:10]

\* the start_date and end_date arguments: not supplied, two dates, a date
\* written without zero padding, and a day that does not exist
DateInputs ==
    { EmptyStr,
      Strftime(FirstDay),
      Strftime(FirstDay + 3),
      <<Digit(2), Digit(0), Digit(2), Digit(4), Dash, Digit(3), Dash, Digit(1)>>,
      <<Digit(2), Digit(0), Digit(2), Digit(4), Dash, Digit(0), Digit(2), Dash, Digit(3), Digit(0)>> }

DateArgs == [start_date : DateInputs, end_date : DateInputs, project_name : ProjectNames]

StrptimeError == Exc("ValueError", "time data does not match format '%Y-%m-%d'")

\* a mutant of DefaultDateRange: the last elif is an else, so a supplied
\* end_date is replaced by today
DefaultDateRange_endToday(start_date, end_date, now, window) ==
    IF start_date = EmptyStr /\ end_date = EmptyStr
    THEN [ok |-> TRUE, start_date |-> Strftime(now - window), end_date |-> Strftime(now)]
    ELSE IF start_date = EmptyStr
    THEN IF Strptime(end_date).ok
         THEN [ok |-> TRUE, start_date |-> Strftime(Strptime(end_date).day - window),
               end_date |-> end_date]
         ELSE [ok |-> FALSE, start_date |-> start_date, end_date |-> end_date]
    ELSE [ok |-> TRUE, start_date |-> start_date, end_date |-> Strftime(now)]

\* a mutant of DefaultDateRange: with only end_date supplied the window is
\* counted back from today
DefaultDateRange_fromToday(start_date, end_date, now, window) ==
    IF start_date = EmptyStr /\ end_date = EmptyStr
    THEN [ok |-> TRUE, start_date |-> Strftime(now - window), end_date |-> Strftime(now)]
    ELSE IF start_date = EmptyStr
    THEN IF Strptime(end_date).ok
         THEN [ok |-> TRUE, start_date |-> Strftime(now - window), end_date |-> end_date]
         ELSE [ok |-> FALSE, start_date |-> start_date, end_date |-> end_date]
    ELSE IF end_date = EmptyStr
    THEN [ok |-> TRUE, start_date |-> start_date, end_date |-> Strftime(now)]
    ELSE [ok |-> TRUE, start_date |-> start_date, end_date |-> end_date]

\* "Set default date range if not provided": the if/elif/elif of each listing
\* tool, with the tool's window; ok is FALSE where strptime raises
DefaultDateRange(start_date, end_date, now, window) ==
    IF start_date = EmptyStr /\ end_date = EmptyStr
    THEN [ok |-> TRUE, start_date |-> Strftime(now - window), end_date |-> Strftime(now)]
    ELSE IF start_date = EmptyStr
    THEN IF Strptime(end_date).ok
         THEN [ok |-> TRUE, start_date |-> Strftime(Strptime(end_date).day - window),
               end_date |-> end_date]
         ELSE [ok |-> FALSE, start_date |-> start_date, end_date |-> end_date]
    ELSE IF end_date = EmptyStr
    THEN [ok |-> TRUE, start_date |-> start_date, end_date |-> Strftime(now)]
    ELSE [ok |-> TRUE, start_date |-> start_date, end_date |-> end_date]

\* "Handle single-day queries by expanding the range for API call"
ExpandSingleDay(start_date, end_date) ==
    IF start_date = end_date
    THEN IF Strptime(start_date).ok /\ Strptime(end_date).ok
         THEN [ok |-> TRUE,
               api_start_date |-> Strftime(Strptime(start_date).day - ExpandDays),
               api_end_date |-> Strftime(Strptime(end_date).day + ExpandDays),
               single_day_filter |-> start_date]
         ELSE [ok |-> FALSE, api_start_date |-> start_date, api_end_date |-> end_date,
               single_day_filter |-> EmptyStr]
    ELSE [ok |-> TRUE, api_start_date |-> start_date, api_end_date |-> end_date,
          single_day_filter |-> EmptyStr]

\* s[:n]
Prefix(s, n) == SubSeq(s, 1, IF Len(s) < n THEN Len(s) ELSE n)

\* a <= b on Python strings
RECURSIVE StrLE(_, _)
StrLE(a, b) ==
    IF Len(a) = 0 THEN TRUE
    ELSE IF Len(b) = 0 THEN FALSE
    ELSE IF a[1] # b[1] THEN a[1] < b[1]
    ELSE StrLE(Tail(a), Tail(b))

\* "T09:00:00Z"
TimeSuffix == <<84, Digit(0), Digit(9), 58, Digit(0), Digit(0), 58, Digit(0), Digit(0), 90>>

TimeEntry(id, day, duration, project_id, matches) ==
    [id |-> id, start |-> Strftime(day) \o TimeSuffix, duration |-> duration,
     project_id |-> project_id, matches |-> matches]

\* what the backend may answer to GET /me/time_entries; its date filter is
\* its own, so an answer is any list of the pool.  `matches` tells whether
\* the description contains the search query.
EntryAnswers ==
    { << >>,
      << TimeEntry(11, FirstDay - 1, 1800, 1, TRUE),
         TimeEntry(12, FirstDay, 3600, 2, TRUE),
         TimeEntry(13, FirstDay, 5400, NoneId, FALSE),
         TimeEntry(14, FirstDay + 1, -1, 3, TRUE),
         TimeEntry(15, FirstDay + 1, 0, 9, TRUE) >> }

-----------------------------------------------------------------------------
(* The formatting of the entries: groups by date, durations, totals,       *)
(* project names and percentages.                                          *)

\* str(n) of an int n >= 0
RECURSIVE Str(_)
Str(n) == IF n < 10 THEN <<Digit(n)>> ELSE Str(n \div 10) \o <<Digit(n % 10)>>

\* f"{seconds // 3600}h {(seconds % 3600) // 60}m"
FormatHM(seconds) ==
    Str(seconds \div 3600) \o <<104, 32>> \o Str((seconds % 3600) \div 60) \o <<109>>

\* "Running"
RunningStr == <<82, 117, 110, 110, 105, 110, 103>>

\* "Convert duration from seconds to hours and minutes"
DurationStr(duration) ==
    IF duration > 0 THEN FormatHM(duration) ELSE RunningStr

\* "Unknown date"
UnknownDate == <<85, 110, 107, 110, 111, 119, 110, 32, 100, 97, 116, 101>>

\* date = start_time[:10] if start_time else "Unknown date"
DateKey(e) ==
    IF e.start # EmptyStr THEN Prefix(e.start, DatePrefix) ELSE UnknownDate

\* entries_by_date.keys(): each date once, in the order of its first entry
DateKeys(es) == Dedup([i \in 1..Len(es) |-> DateKey(es[i])])

\* entries_by_date[date]
EntriesOfDate(es, date) == SelectSeq(es, LAMBDA e : DateKey(e) = date)

RECURSIVE InsertString(_, _)
InsertString(s, x) ==
    IF Len(s) = 0 THEN <<x>>
    ELSE IF StrLE(Head(s), x) THEN <<Head(s)>> \o InsertString(Tail(s), x)
    ELSE <<x>> \o s

\* a mutant of SortedStrings: the dates stay in the order of their first entry
SortedStrings_unsorted(s) == s

\* sorted(entries_by_date.keys())
RECURSIVE SortedStrings(_)
SortedStrings(s) ==
    IF Len(s) = 0 THEN << >>
    ELSE InsertString(SortedStrings(SubSeq(s, 1, Len(s) - 1)), s[Len(s)])

\* a mutant of TotalTime: the duration is added whatever its sign
RECURSIVE TotalTime_all(_)
TotalTime_all(es) ==
    IF Len(es) = 0 THEN 0
    ELSE TotalTime_all(SubSeq(es, 1, Len(es) - 1)) + es[Len(es)].duration

\* the accumulation `if duration > 0: total += duration` over a list
RECURSIVE TotalTime(_)
TotalTime(es) ==
    IF Len(es) = 0 THEN 0
    ELSE TotalTime(SubSeq(es, 1, Len(es) - 1))
         + (IF es[Len(es)].duration > 0 THEN es[Len(es)].duration ELSE 0)

\* the for/break loop over the projects: the name of the first project with
\* this id, or "No project"
ProjectNameDisplay(ps, project_id) ==
    LET hits == {i \in 1..Len(ps) : ps[i].id = project_id}
    IN  IF hits = {} THEN "No project" ELSE ps[Min(hits)].name

\* {p.get("id"): p.get("name") for p in projects}.get(project_id, "No project")
ProjectMapName(ps, project_id) ==
    LET hits == {i \in 1..Len(ps) : ps[i].id = project_id}
    IN  IF hits = {} THEN "No project" ELSE ps[Max(hits)].name

\* one line of a date group; byLoop tells how the project name is found
EntryLine(e, ps, byLoop) ==
    [entry |-> e,
     project_name |-> IF byLoop THEN ProjectNameDisplay(ps, e.project_id)
                      ELSE ProjectMapName(ps, e.project_id),
     duration_str |-> DurationStr(e.duration)]

\* the block of one date: its lines in the order of the entries, and the
\* daily total, which is shown when it is positive
DateGroup(es, ps, date, byLoop) ==
    LET group == EntriesOfDate(es, date)
    IN  [date |-> date,
         lines |-> [i \in 1..Len(group) |-> EntryLine(group[i], ps, byLoop)],
         daily_total |-> TotalTime(group),
         daily_total_str |-> IF TotalTime(group) > 0 THEN FormatHM(TotalTime(group))
                             ELSE EmptyStr]

\* the blocks of the dates, in sorted order
DateGroups(es, ps, byLoop) ==
    LET dates == SortedStrings(DateKeys(es))
    IN  [k \in 1..Len(dates) |-> DateGroup(es, ps, dates[k], byLoop)]

\* project_totals[name] += duration, a new name going to the end
AddToProject(totals, name, duration) ==
    IF \E i \in 1..Len(totals) : totals[i].name = name
    THEN [i \in 1..Len(totals) |->
            IF totals[i].name = name
            THEN [totals[i] EXCEPT !.total = @ + duration] ELSE totals[i]]
    ELSE Append(totals, [name |-> name, total |-> duration])

\* a mutant of ProjectTotals: an entry without a project of the list is left
\* out
RECURSIVE ProjectTotals_resolved(_, _)
ProjectTotals_resolved(es, ps) ==
    IF Len(es) = 0 THEN << >>
    ELSE LET r == ProjectTotals_resolved(SubSeq(es, 1, Len(es) - 1), ps)
             e == es[Len(es)]
         IN  IF e.duration > 0 /\ \E i \in 1..Len(ps) : ps[i].id = e.project_id
             THEN AddToProject(r, ProjectMapName(ps, e.project_id), e.duration)
             ELSE r

\* "Aggregate by project": only completed entries count
RECURSIVE ProjectTotals(_, _)
ProjectTotals(es, ps) ==
    IF Len(es) = 0 THEN << >>
    ELSE LET r == ProjectTotals(SubSeq(es, 1, Len(es) - 1), ps)
             e == es[Len(es)]
         IN  IF e.duration > 0
             THEN AddToProject(r, ProjectMapName(ps, e.project_id), e.duration)
             ELSE r

\* a mutant of InsertByTotal: of two equal totals the later one goes first
RECURSIVE InsertByTotal_unstable(_, _)
InsertByTotal_unstable(s, x) ==
    IF Len(s) = 0 THEN <<x>>
    ELSE IF Head(s).total > x.total
    THEN <<Head(s)>> \o InsertByTotal_unstable(Tail(s), x)
    ELSE <<x>> \o s

RECURSIVE InsertByTotal(_, _)
InsertByTotal(s, x) ==
    IF Len(s) = 0 THEN <<x>>
    ELSE IF Head(s).total >= x.total THEN <<Head(s)>> \o InsertByTotal(Tail(s), x)
    ELSE <<x>> \o s

\* sorted(project_totals.items(), key=lambda x: x[1], reverse=True): the
\* sort is stable, equal totals keep their order
RECURSIVE SortedProjects(_)
SortedProjects(totals) ==
    IF Len(totals) = 0 THEN << >>
    ELSE InsertByTotal(SortedProjects(SubSeq(totals, 1, Len(totals) - 1)),
                       totals[Len(totals)])

\* a mutant of PercentageTenths: the second decimal is cut off
PercentageTenths_floor(total_seconds, grand_total) ==
    IF grand_total > 0 THEN (total_seconds * 1000) \div grand_total ELSE 0

\* total_seconds / grand_total * 100 as f"{percentage:.1f}" shows it, counted
\* in tenths: the nearest tenth, a tie going to the even one
PercentageTenths(total_seconds, grand_total) ==
    IF grand_total > 0
    THEN LET q == (total_seconds * 1000) \div grand_total
             r == (total_seconds * 1000) % grand_total
         IN  IF 2 * r > grand_total THEN q + 1
             ELSE IF 2 * r < grand_total THEN q
             ELSE IF q % 2 = 0 THEN q ELSE q + 1
    ELSE 0

\* f"{percentage:.1f}"
PercentageStr(tenths) == Str(tenths \div 10) \o <<46, Digit(tenths % 10)>>

\* the lines of the summary, and the grand total
SummaryRows(es, ps) ==
    LET sorted_projects == SortedProjects(ProjectTotals(es, ps))
        grand_total == TotalTime(es)
    IN  [k \in 1..Len(sorted_projects) |->
            [name |-> sorted_projects[k].name,
             total_seconds |-> sorted_projects[k].total,
             time_str |-> FormatHM(sorted_projects[k].total),
             percentage |-> PercentageStr(PercentageTenths(sorted_projects[k].total,
                                                           grand_total))]]

\* the first segment of a listing tool: token, date defaults, and for the
\* fixed listing the single-day expansion, then the session
EnterDated(t, a, today, window, fixed, p) ==
    /\ family = "listing"
    /\ Begin(t, a)
    /\ UNCHANGED backend
    /\ IF get_api_token(token).raised
       THEN EnterFail(t, get_api_token(token).exc)
       ELSE LET r == DefaultDateRange(a.start_date, a.end_date, today, window)
                x == IF fixed THEN ExpandSingleDay(r.start_date, r.end_date)
                     ELSE [ok |-> TRUE, api_start_date |-> r.start_date,
                           api_end_date |-> r.end_date, single_day_filter |-> EmptyStr]
            IN  IF ~r.ok \/ ~x.ok
                THEN EnterFail(t, StrptimeError)
                ELSE EnterWith(p, [LocInit EXCEPT
                                     !.now = today,
                                     !.start_date = r.start_date,
                                     !.end_date = r.end_date,
                                     !.api_start_date = x.api_start_date,
                                     !.api_end_date = x.api_end_date,
                                     !.single_day_filter = x.single_day_filter])

NoEntries(l, name) ==
    [text |-> "No time entries found", start |-> l.start_date, end |-> l.end_date,
     project_name |-> name]

\* the text a listing tool builds from the entries es and the projects ps:
\* the date groups of the two listings and of the search, the search's
\* overall total (shown when positive), the rows and the total of the summary
Listing(title, l, es, ps) ==
    IF title = "Time Summary"
    THEN [text |-> title, start |-> l.start_date, end |-> l.end_date, shown |-> es,
          rows |-> SummaryRows(es, ps),
          grand_total |-> TotalTime(es),
          total_str |-> FormatHM(TotalTime(es))]
    ELSE IF title = "Time Entries matching"
    THEN [text |-> title, start |-> l.start_date, end |-> l.end_date, shown |-> es,
          groups |-> DateGroups(es, ps, FALSE),
          total_matching_time |-> TotalTime(es),
          total_str |-> IF TotalTime(es) > 0 THEN FormatHM(TotalTime(es)) ELSE EmptyStr]
    ELSE [text |-> title, start |-> l.start_date, end |-> l.end_date, shown |-> es,
          groups |-> DateGroups(es, ps, TRUE)]

\* the handler's local `projects`: what its get_projects call returned
LocalProjects == reqs[1].out.val.val

\* project_ids of the entry query: None, or [project_id]
ProjectIds(project_id) == IF project_id = NoneId THEN << >> ELSE <<project_id>>

\* the two ways the listing tools resolve project_name: through the
\* name -> id dict (get_time_entries, get_time_entries_fixed) or by the
\* for/break loop (get_time_summary)
Lookup(byDict, ps, name) ==
    IF byDict THEN ProjectMapGet(ps, name) ELSE FirstMatch(ps, name)

\* the available names of the not-found text: the dict's keys, or the names
\* of the list
Available(byDict, ps) ==
    IF byDict THEN ProjectMapKeys(ps) ELSE Names(ps)

\* the segment that fetches the projects and resolves project_name
ResolveProject(p, next, byDict) ==
    /\ Segment(p)
    /\ UNCHANGED backend
    /\ \E resp \in Responses :
        LET out == TogglClient_get_projects(session, resp, PyList(projects))
        IN  /\ reqs' = Log("get_projects", "GET", << >>, resp, out)
            /\ IF Failed(out) THEN Throw(Failure(out), loc)
               ELSE IF args.project_name = ""
               THEN Goto(next, loc)
               ELSE IF Lookup(byDict, out.val.val, args.project_name) = NoneId
               THEN Return(NotFound(args.project_name, Available(byDict, out.val.val)), loc)
               ELSE Goto(next, [loc EXCEPT
                                  !.project_id = Lookup(byDict, out.val.val, args.project_name)])

\* a mutant of FilterToRange: the single-day filter is left out
FilterToRange_unfiltered(es, l) ==
    IF l.start_date # l.api_start_date /\ l.single_day_filter = EmptyStr
    THEN SelectSeq(es, LAMBDA e : /\ StrLE(l.start_date, Prefix(e.start, DatePrefix))
                                  /\ StrLE(Prefix(e.start, DatePrefix), l.end_date))
    ELSE es

\* "Filter to the requested date range" (lines 869-875)
FilterToRange(es, l) ==
    IF l.single_day_filter # EmptyStr
    THEN SelectSeq(es, LAMBDA e : Prefix(e.start, DatePrefix) = l.single_day_filter)
    ELSE IF l.start_date # l.api_start_date \/ l.end_date # l.api_end_date
    THEN SelectSeq(es, LAMBDA e : /\ StrLE(l.start_date, Prefix(e.start, DatePrefix))
                                  /\ StrLE(Prefix(e.start, DatePrefix), l.end_date))
    ELSE es

\* the segment that queries the entries: the query goes out with the api
\* dates; the fixed listing filters the answer to the requested range
QueryEntries(p, title, fixed) ==
    /\ Segment(p)
    /\ UNCHANGED backend
    /\ \E resp \in Responses, answer \in EntryAnswers :
        LET out == TogglClient_get_time_entries(session, resp, PyList(answer),
                                                ProjectIds(loc.project_id))
            kept == IF Failed(out) THEN << >>
                    ELSE IF fixed THEN FilterToRange(out.val.val, loc)
                    ELSE out.val.val
        IN  /\ reqs' = Log("get_time_entries", "GET",
                           <<loc.api_start_date, loc.api_end_date>>, resp, out)
            /\ IF Failed(out) THEN Throw(Failure(out), loc)
               ELSE IF Len(kept) = 0
               THEN Return(NoEntries(loc, args.project_name), loc)
               ELSE Return(Listing(title, loc, kept, LocalProjects), loc)

-----------------------------------------------------------------------------
(* get_time_entries, get_time_summary, search_time_entries,                *)
(* get_time_entries_fixed                                                  *)

get_time_entries ==
    \E a \in DateArgs, today \in Todays :
        EnterDated("get_time_entries", a, today, ListingWindow, FALSE, "get_time_entries_projects")

get_time_entries_projects ==
    ResolveProject("get_time_entries_projects", "get_time_entries_entries", TRUE)

get_time_entries_entries ==
    QueryEntries("get_time_entries_entries", "Time Entries", FALSE)

get_time_summary ==
    \E a \in DateArgs, today \in Todays :
        EnterDated("get_time_summary", a, today, ListingWindow, FALSE, "get_time_summary_projects")

get_time_summary_projects ==
    ResolveProject("get_time_summary_projects", "get_time_summary_entries", FALSE)

get_time_summary_entries ==
    QueryEntries("get_time_summary_entries", "Time Summary", FALSE)

search_time_entries ==
    \E a \in DateArgs, today \in Todays :
        /\ a.project_name = ""
        /\ EnterDated("search_time_entries", a, today, SearchWindow, FALSE, "search_time_entries_projects")

search_time_entries_projects ==
    ResolveProject("search_time_entries_projects", "search_time_entries_entries", FALSE)

\* "Filter entries by description query"
MatchingEntries(es) == SelectSeq(es, LAMBDA e : e.matches)

search_time_entries_entries ==
    /\ Segment("search_time_entries_entries")
    /\ UNCHANGED backend
    /\ \E resp \in Responses, answer \in EntryAnswers :
        LET out == TogglClient_get_time_entries(session, resp, PyList(answer), << >>)
        IN  /\ reqs' = Log("get_time_entries", "GET",
                           <<loc.api_start_date, loc.api_end_date>>, resp, out)
            /\ IF Failed(out) THEN Throw(Failure(out), loc)
               ELSE IF Len(out.val.val) = 0
               THEN Return(NoEntries(loc, ""), loc)
               ELSE IF Len(MatchingEntries(out.val.val)) = 0
               THEN Return([text |-> "No time entries found matching",
                            start |-> loc.start_date, end |-> loc.end_date], loc)
               ELSE Return(Listing("Time Entries matching", loc,
                                   MatchingEntries(out.val.val), LocalProjects), loc)

get_time_entries_fixed ==
    \E a \in DateArgs, today \in Todays :
        EnterDated("get_time_entries_fixed", a, today, ListingWindow, TRUE,
                   "get_time_entries_fixed_projects")

get_time_entries_fixed_projects ==
    ResolveProject("get_time_entries_fixed_projects", "get_time_entries_fixed_entries", TRUE)

get_time_entries_fixed_entries ==
    QueryEntries("get_time_entries_fixed_entries", "Time Entries", TRUE)

-----------------------------------------------------------------------------
(* get_project_tasks, create_project_task, get_all_tasks *)

\* the names the task tools are called with
TaskProjectNames == {"Alpha", "Nope"}

\* the first two segments of the three task tools: workspaces, then projects
TaskWorkspaces(p, next) ==
    /\ Segment(p)
    /\ UNCHANGED backend
    /\ \E resp \in Responses :
        LET out == TogglClient_get_workspaces(session, resp, PyList(workspaces))
        IN  /\ reqs' = Log("get_workspaces", "GET", << >>, resp, out)
            /\ IF Failed(out) THEN Throw(Failure(out), loc)
               ELSE Goto(next, loc)

\* the project named by the argument: found by the for/break loop
TaskProjects(p, next) ==
    /\ Segment(p)
    /\ UNCHANGED backend
    /\ \E resp \in Responses :
        LET out == TogglClient_get_projects(session, resp, PyList(projects))
        IN  /\ reqs' = Log("get_projects", "GET", << >>, resp, out)
            /\ IF Failed(out) THEN Throw(Failure(out), loc)
               ELSE IF Len(workspaces) = 0
               THEN Return([text |-> "No workspaces found."], loc)
               ELSE LET ps == out.val.val
                        project_id == FirstMatch(ps, args.project_name)
                    IN  IF project_id = NoneId
                        THEN Return(NotFound(args.project_name, Names(ps)), loc)
                        ELSE LET found == ps[CHOOSE i \in 1..Len(ps) : ps[i].id = project_id]
                             IN  Goto(next, [loc EXCEPT !.project_id = project_id,
                                                        !.workspace_id = found.workspace_id])

get_project_tasks ==
    \E n \in TaskProjectNames :
        Enter("get_project_tasks", NameArgs(n), "get_project_tasks_workspaces")

get_project_tasks_workspaces ==
    TaskWorkspaces("get_project_tasks_workspaces", "get_project_tasks_projects")

get_project_tasks_projects ==
    TaskProjects("get_project_tasks_projects", "get_project_tasks_tasks")

get_project_tasks_tasks ==
    /\ Segment("get_project_tasks_tasks")
    /\ UNCHANGED backend
    /\ \E resp \in Responses :
        LET out == TogglClient_get_tasks(session, resp,
                                         PyList(BackendTasks(tasks, loc.project_id)))
        IN  /\ reqs' = Log("get_tasks", "GET", <<loc.workspace_id, loc.project_id>>, resp, out)
            /\ IF Failed(out) THEN Throw(Failure(out), loc)
               ELSE IF ~Truthy(out.val)
               THEN Return([text |-> "No tasks found for project", name |-> args.project_name], loc)
               ELSE Return([text |-> "Tasks for project", name |-> args.project_name,
                            items |-> out.val.val], loc)

create_project_task ==
    \E n \in TaskProjectNames :
        Enter("create_project_task", NameArgs(n), "create_project_task_workspaces")

create_project_task_workspaces ==
    TaskWorkspaces("create_project_task_workspaces", "create_project_task_projects")

create_project_task_projects ==
    TaskProjects("create_project_task_projects", "create_project_task_create")

create_project_task_create ==
    /\ Segment("create_project_task_create")
    /\ Len(tasks) < MaxTasks
    /\ UNCHANGED <<projects, workspaces, entries>>
    /\ \E resp \in Responses :
        LET after == BackendCreateTask(tasks, loc.workspace_id, loc.project_id)
            out == TogglClient_create_task(session, resp, PyDict(after[Len(after)]))
        IN  /\ reqs' = Log("create_task", "POST", <<loc.workspace_id, loc.project_id>>, resp, out)
            /\ tasks' = IF out.sent /\ resp.status \in {200, 201} THEN after ELSE tasks
            /\ IF Failed(out) THEN Throw(Failure(out), loc)
               ELSE Return([text |-> "**Task Created Successfully!**", task |-> out.val.val], loc)

get_all_tasks ==
    Enter("get_all_tasks", NoArgs, "get_all_tasks_workspaces")

get_all_tasks_workspaces ==
    TaskWorkspaces("get_all_tasks_workspaces", "get_all_tasks_projects")

\* the text of get_all_tasks: the sections of the projects that have tasks
\* and the total
AllTasksText(n, sections) ==
    IF n = 0 THEN [text |-> "No tasks found across any projects."]
    ELSE [text |-> "All Tasks Across Projects:", sections |-> sections, total_tasks |-> n]

get_all_tasks_projects ==
    /\ Segment("get_all_tasks_projects")
    /\ UNCHANGED backend
    /\ \E resp \in Responses :
        LET out == TogglClient_get_projects(session, resp, PyList(projects))
        IN  /\ reqs' = Log("get_projects", "GET", << >>, resp, out)
            /\ IF Failed(out) THEN Throw(Failure(out), loc)
               ELSE IF Len(workspaces) = 0
               THEN Return([text |-> "No workspaces found."], loc)
               ELSE IF ~Truthy(out.val)
               THEN Return([text |-> "No projects found."], loc)
               ELSE Goto("get_all_tasks_tasks", [loc EXCEPT !.idx = 1])

\* one turn of the loop over the projects: the inner try/except skips a
\* project whose tasks cannot be fetched
\* a mutant of InnerTry: the exception of a failed fetch is raised again
InnerTry_reraise(project, out, l) ==
    IF Failed(out)
    THEN [propagates |-> TRUE, total_tasks |-> l.total_tasks, sections |-> l.sections]
    ELSE [propagates |-> FALSE,
          total_tasks |-> l.total_tasks + Len(out.val.val),
          sections |-> IF Truthy(out.val)
                       THEN Append(l.sections, [project_id |-> project.id,
                                                tasks |-> out.val.val])
                       ELSE l.sections]

\* the body of the loop's try: a project with tasks gets a section and its
\* tasks are counted; `except Exception: continue` leaves text and count as
\* they were and lets nothing out
InnerTry(project, out, l) ==
    IF Failed(out)
    THEN [propagates |-> FALSE, total_tasks |-> l.total_tasks, sections |-> l.sections]
    ELSE [propagates |-> FALSE,
          total_tasks |-> l.total_tasks + Len(out.val.val),
          sections |-> IF Truthy(out.val)
                       THEN Append(l.sections, [project_id |-> project.id,
                                                tasks |-> out.val.val])
                       ELSE l.sections]

get_all_tasks_tasks ==
    /\ Segment("get_all_tasks_tasks")
    /\ UNCHANGED backend
    /\ \E resp \in Responses :
        LET project == projects[loc.idx]
            out == TogglClient_get_tasks(session, resp,
                                         PyList(BackendTasks(tasks, project.id)))
            r == InnerTry(project, out, loc)
            l == [loc EXCEPT !.total_tasks = r.total_tasks, !.sections = r.sections]
        IN  /\ reqs' = Log("get_tasks", "GET", <<project.workspace_id, project.id>>, resp, out)
            /\ IF r.propagates THEN Throw(Failure(out), loc)
               ELSE IF loc.idx < Len(projects)
               THEN Goto("get_all_tasks_tasks", [l EXCEPT !.idx = loc.idx + 1])
               ELSE Return(AllTasksText(r.total_tasks, r.sections), l)

-----------------------------------------------------------------------------
(* The environment: another client of the account, and the clock. *)

\* another client starts a timer the way the backend's own apps do: the
\* running entry, if any, is closed first
OtherClientStart ==
    /\ family = "control"
    /\ Len(entries) < MaxEntries
    /\ \E w \in ForeignWorkspaces, d \in StopDurations :
        entries' = BackendStart(entries, w, NoneId, TRUE, d)
    /\ UNCHANGED <<family, token, projects, workspaces, tasks,
                   tool, args, pc, session, loc, reqs, result, propagated>>

OtherClientStop ==
    /\ Running(entries) # {}
    /\ \E d \in StopDurations :
        LET e == entries[Max(Running(entries))]
        IN  entries' = BackendStop(entries, e.workspace_id, e.id, d)
    /\ UNCHANGED <<family, token, projects, workspaces, tasks,
                   tool, args, pc, session, loc, reqs, result, propagated>>

\* the host takes the result; the invocation's client and locals are gone
Deliver ==
    /\ pc = "returned"
    /\ pc' = "idle"
    /\ tool' = "none"
    /\ args' = NoArgs
    /\ session' = NewSession
    /\ loc' = LocInit
    /\ reqs' = << >>
    /\ result' = NoResult
    /\ propagated' = FALSE
    /\ UNCHANGED <<family, token, backend>>

Next ==
    \/ get_projects \/ get_projects_projects
    \/ get_workspaces \/ get_workspaces_workspaces
    \/ get_current_timer \/ get_current_timer_current \/ get_current_timer_projects
    \/ start_timer \/ start_timer_workspaces \/ start_timer_projects \/ start_timer_start
    \/ stop_current_timer \/ stop_current_timer_current \/ stop_current_timer_workspaces
    \/ stop_current_timer_stop \/ stop_current_timer_projects
    \/ get_time_entries \/ get_time_entries_projects \/ get_time_entries_entries
    \/ get_time_summary \/ get_time_summary_projects \/ get_time_summary_entries
    \/ search_time_entries \/ search_time_entries_projects \/ search_time_entries_entries
    \/ get_time_entries_fixed \/ get_time_entries_fixed_projects
    \/ get_time_entries_fixed_entries
    \/ get_project_tasks \/ get_project_tasks_workspaces \/ get_project_tasks_projects
    \/ get_project_tasks_tasks
    \/ create_project_task \/ create_project_task_workspaces
    \/ create_project_task_projects \/ create_project_task_create
    \/ get_all_tasks \/ get_all_tasks_workspaces \/ get_all_tasks_projects
    \/ get_all_tasks_tasks
    \/ Deliver
    \/ OtherClientStart \/ OtherClientStop

Spec == Init /\ [][Next]_vars

-----------------------------------------------------------------------------
(* The formatting on its own: the handlers' code after the entry query,    *)
(* applied to any short list of entries.                                   *)

MaxAggLen == 3

\* entries of three days and one without a start; completed, of zero
\* seconds and running; of a project, of none (null) and of a project that
\* is not in the list (9)
AggEntries ==
    { TimeEntry(21, FirstDay, 3661, 1, TRUE),
      TimeEntry(22, FirstDay, 59, 2, TRUE),
      TimeEntry(23, FirstDay + 1, 5400, NoneId, TRUE),
      TimeEntry(24, FirstDay + 1, 0, 1, TRUE),
      TimeEntry(25, FirstDay, -1, 9, TRUE),
      [TimeEntry(26, FirstDay, 1800, 2, TRUE) EXCEPT !.start = EmptyStr],
      TimeEntry(27, FirstDay - 1, 7200, 3, TRUE),
      TimeEntry(28, FirstDay - 1, 1, 9, FALSE),
      TimeEntry(29, FirstDay + 1, 3661, 2, TRUE) }

AggEntryLists == UNION {[1..n -> AggEntries] : n \in 0..MaxAggLen}

AggArgs(es) ==
    [start_date |-> EmptyStr, end_date |-> EmptyStr, project_name |-> "", entries |-> es]

\* the handler holds the projects and the entries the client returned
InitAgg ==
    /\ family = "aggregate"
    /\ token = TRUE
    /\ projects \in ProjectLists
    /\ workspaces = << >>
    /\ entries = << >>
    /\ tasks = << >>
    /\ tool = "none"
    /\ args \in {AggArgs(es) : es \in AggEntryLists}
    /\ pc = "idle"
    /\ session = AEnter(NewSession)
    /\ loc = LocInit
    /\ reqs = << >>
    /\ result = NoResult
    /\ propagated = FALSE

Formatted(t, r) ==
    /\ pc = "idle"
    /\ pc' = "returned"
    /\ tool' = t
    /\ result' = r
    /\ session' = AExit(session)
    /\ UNCHANGED <<family, token, backend, args, loc, reqs, propagated>>

\* get_time_entries and get_time_entries_fixed from `if not entries` on
FormatEntries ==
    Formatted("get_time_entries",
              IF Len(args.entries) = 0 THEN NoEntries(loc, "")
              ELSE Listing("Time Entries", loc, args.entries, projects))

\* get_time_summary from `if not entries` on
FormatSummary ==
    Formatted("get_time_summary",
              IF Len(args.entries) = 0 THEN NoEntries(loc, "")
              ELSE Listing("Time Summary", loc, args.entries, projects))

\* search_time_entries from `if not entries` on
FormatSearch ==
    Formatted("search_time_entries",
              IF Len(args.entries) = 0 THEN NoEntries(loc, "")
              ELSE IF Len(MatchingEntries(args.entries)) = 0
              THEN [text |-> "No time entries found matching",
                    start |-> loc.start_date, end |-> loc.end_date]
              ELSE Listing("Time Entries matching", loc,
                           MatchingEntries(args.entries), projects))

NextAgg == FormatEntries \/ FormatSummary \/ FormatSearch

SpecAgg == InitAgg /\ [][NextAgg]_vars

-----------------------------------------------------------------------------
(* The client on its own: a TogglClient whose scope is entered and left    *)
(* and whose methods are called in any order, inside and outside the       *)
(* scope.                                                                  *)

InitClient ==
    /\ family = "client"
    /\ token = TRUE
    /\ projects \in ProjectLists
    /\ workspaces \in WorkspaceLists
    /\ entries = << >>
    /\ tasks = << >>
    /\ tool = "none"
    /\ args = NoArgs
    /\ pc = "idle"
    /\ session = NewSession
    /\ loc = LocInit
    /\ reqs = << >>
    /\ result = NoResult
    /\ propagated = FALSE

\* `async with client:` is entered
TogglClient_aenter ==
    /\ session # "open"
    /\ session' = AEnter(session)
    /\ pc' = "entered"
    /\ tool' = "__aenter__"
    /\ reqs' = << >>
    /\ result' = NoResult
    /\ UNCHANGED <<family, token, backend, args, loc, propagated>>

\* the `async with` block is left
TogglClient_aexit ==
    /\ session = "open"
    /\ session' = AExit(session)
    /\ pc' = "left"
    /\ tool' = "__aexit__"
    /\ reqs' = << >>
    /\ result' = NoResult
    /\ UNCHANGED <<family, token, backend, args, loc, propagated>>

\* a method was called: the request it issued, if any, and its outcome
Called(op, method, params, resp, out) ==
    /\ tool' = op
    /\ pc' = "called"
    /\ reqs' = IF out.sent
               THEN <<[op |-> op, method |-> method, params |-> params,
                       open |-> (session = "open"), status |-> resp.status,
                       text |-> resp.text, out |-> out]>>
               ELSE << >>
    /\ result' = [text |-> "", out |-> out]
    /\ UNCHANGED <<family, token, projects, workspaces, args, session, loc, propagated>>

Call_get_projects ==
    /\ UNCHANGED <<entries, tasks>>
    /\ \E resp \in Responses :
        Called("get_projects", "GET", << >>, resp,
               TogglClient_get_projects(session, resp, PyList(projects)))

Call_get_workspaces ==
    /\ UNCHANGED <<entries, tasks>>
    /\ \E resp \in Responses :
        Called("get_workspaces", "GET", << >>, resp,
               TogglClient_get_workspaces(session, resp, PyList(workspaces)))

Call_get_time_entries ==
    /\ UNCHANGED <<entries, tasks>>
    /\ \E resp \in Responses, answer \in EntryAnswers, project_id \in {NoneId, 1} :
        Called("get_time_entries", "GET",
               <<Strftime(FirstDay), Strftime(FirstDay + 1)>>, resp,
               TogglClient_get_time_entries(session, resp, PyList(answer),
                                            ProjectIds(project_id)))

Call_get_current_time_entry ==
    /\ UNCHANGED <<entries, tasks>>
    /\ \E resp \in Responses :
        Called("get_current_time_entry", "GET", << >>, resp,
               TogglClient_get_current_time_entry(session, resp, BackendCurrent(entries)))

Call_start_timer ==
    /\ Len(entries) < MaxEntries
    /\ UNCHANGED tasks
    /\ \E resp \in Responses, autoStop \in BOOLEAN, d \in StopDurations,
          project_id \in {NoneId, 1} :
        LET after == BackendStart(entries, 10, project_id, autoStop, d)
            out == TogglClient_start_timer(session, resp, PyDict(after[Len(after)]))
        IN  /\ entries' = IF out.sent /\ resp.status \in {200, 201} THEN after ELSE entries
            /\ Called("start_timer", "POST", <<10, project_id>>, resp, out)

Call_stop_timer ==
    /\ UNCHANGED tasks
    /\ \E resp \in Responses, d \in StopDurations, time_entry_id \in 1..MaxEntries :
        LET after == BackendStop(entries, 10, time_entry_id, d)
            out == TogglClient_stop_timer(session, resp, BackendEntry(after, time_entry_id))
        IN  /\ entries' = IF out.sent /\ resp.status \in {200, 201} THEN after ELSE entries
            /\ Called("stop_timer", "PATCH", <<10, time_entry_id>>, resp, out)

Call_get_tasks ==
    /\ UNCHANGED <<entries, tasks>>
    /\ \E resp \in Responses :
        Called("get_tasks", "GET", <<10, 1>>, resp,
               TogglClient_get_tasks(session, resp, PyList(BackendTasks(tasks, 1))))

Call_create_task ==
    /\ Len(tasks) < MaxTasks
    /\ UNCHANGED entries
    /\ \E resp \in Responses :
        LET after == BackendCreateTask(tasks, 10, 1)
            out == TogglClient_create_task(session, resp, PyDict(after[Len(after)]))
        IN  /\ tasks' = IF out.sent /\ resp.status \in {200, 201} THEN after ELSE tasks
            /\ Called("create_task", "POST", <<10, 1>>, resp, out)

NextClient ==
    \/ TogglClient_aenter \/ TogglClient_aexit
    \/ Call_get_projects \/ Call_get_workspaces \/ Call_get_time_entries
    \/ Call_get_current_time_entry \/ Call_start_timer \/ Call_stop_timer
    \/ Call_get_tasks \/ Call_create_task

SpecClient == InitClient /\ [][NextClient]_vars

-----------------------------------------------------------------------------
(* The claims. *)

InFlight == pc \notin {"idle", "returned"}

Req(i) == reqs[i]
ReqIndices == 1..Len(reqs)

\* C1: every backend request of an invocation is issued while the
\* invocation's session is open, the session stays open while the handler
\* has a call pending, and on every exit path (normal completion, early
\* return, backend error) the session is closed when the tool returns.
C1_SessionScoped ==
    /\ \A i \in ReqIndices : Req(i).open
    /\ InFlight => session = "open"
    /\ pc = "returned" => /\ session # "open"
                          /\ Len(reqs) > 0 => session = "closed"

\* C1 witness: stop_current_timer has read the entry and the workspaces, the
\* stop call failed with a backend error, and the tool has returned with the
\* session closed.
C1_Witness ==
    /\ pc = "returned"
    /\ tool = "stop_current_timer"
    /\ Len(reqs) = 3
    /\ Req(3).op = "stop_timer" /\ Req(3).status = 500
    /\ result.text = "Error stopping timer: "
    /\ session = "closed"

OwnEntriesOnly ==
    \A i \in 1..Len(entries) : entries[i].workspace_id \notin ForeignWorkspaces

\* C2: after any sequence of start_timer and stop_current_timer invocations
\* of this system (no other client has started an entry) at most one entry
\* has duration -1: the timer is Idle or Running.
C2_IdleOrRunning ==
    OwnEntriesOnly => Cardinality(Running(entries)) <= 1

NoTimerText == [text |-> "No timer is currently running."]

\* C3: when the backend answers 404 to "get current entry",
\* get_current_timer and stop_current_timer return exactly "No timer is
\* currently running." and the invocation issues no other request (so no
\* stop mutation).
C3_NoTimerOn404 ==
    ( /\ tool \in {"get_current_timer", "stop_current_timer"}
      /\ Len(reqs) >= 1
      /\ Req(1).op = "get_current_time_entry"
      /\ Req(1).status = 404 )
    => /\ pc = "returned"
       /\ result = NoTimerText
       /\ Len(reqs) = 1
       /\ \A i \in ReqIndices : Req(i).method = "GET"

\* C3 witness: stop_current_timer got a 404 while an entry is running on the
\* backend, and has returned.
C3_Witness ==
    /\ tool = "stop_current_timer"
    /\ pc = "returned"
    /\ Len(reqs) = 1
    /\ Req(1).status = 404
    /\ Running(entries) # {}

\* the project list a successful get_projects request of the invocation got
FetchedProjects(i) == Req(i).out.val.val
GotProjects(i) ==
    /\ i \in ReqIndices
    /\ Req(i).op = "get_projects"
    /\ ~Req(i).out.raised
    /\ Req(i).out.val.tag = "list"

NameListed(ps, name) == \E k \in 1..Len(ps) : ps[k].name = name

Mutating == {"start_timer", "stop_timer", "create_task"}

\* the call raised the backend error, which carries the answer's status
IsBackendError(r) == r.out.raised /\ r.out.exc.status = r.status

\* C5: each of the three mutating client calls takes status 200 and status
\* 201 as success (no backend error) and any other status as a backend error.
C5_MutatingSuccess ==
    \A i \in ReqIndices :
        Req(i).op \in Mutating =>
            (IsBackendError(Req(i)) <=> Req(i).status \notin {200, 201})

\* C6: a client call answered with a non-2xx status raises a backend error
\* that carries the status and the body of the answer, except a 404 to "get
\* current entry", which returns None, a value that is neither a list nor an
\* entry.
C6_ErrorMapping ==
    \A i \in ReqIndices :
        Req(i).status \notin {200, 201} =>
            IF Req(i).op = "get_current_time_entry" /\ Req(i).status = 404
            THEN /\ ~Req(i).out.raised
                 /\ Req(i).out.val.tag = "None"
            ELSE /\ Req(i).out.raised
                 /\ Req(i).out.exc.cls = "Exception"
                 /\ Req(i).out.exc.status = Req(i).status
                 /\ Req(i).out.exc.text = Req(i).text
                 /\ Req(i).text \in ErrBodies

\* C6 witness: the entry query of a listing tool was answered 500 with the
\* body "forbidden".
C6_Witness ==
    \E i \in ReqIndices :
        /\ Req(i).op = "get_time_entries"
        /\ Req(i).status = 500
        /\ Req(i).text = "forbidden"

\* C7: no exception leaves a tool: whatever fails (the token, a date
\* argument, a backend status, the payload of an answer), the invocation
\* ends with a text for the host.
C7_ErrorsCaught ==
    /\ ~propagated
    /\ pc = "returned" => result.text # ""

\* C7 witness: an answer of the wrong shape made the handler raise a
\* TypeError, and the tool returned its error text.
C7_Witness ==
    /\ pc = "returned"
    /\ tool = "get_time_summary"
    /\ result.text = "Error generating time summary: "
    /\ result.exc.cls = "TypeError"

\* C8: with no API token in the environment an invocation never opens a
\* session and never issues a request, and it returns the configuration
\* error of get_api_token.
C8_NoTokenNoNetwork ==
    ~token =>
        /\ ~InFlight
        /\ session = "none"
        /\ reqs = << >>
        /\ pc = "returned" =>
              /\ result.text = "Configuration error: "
              /\ result.exc.msg = "TOGGL_API_TOKEN environment variable is required."

\* C8 witness: get_time_entries_fixed was called without a token, with a
\* date argument that strptime would refuse.
C8_Witness ==
    /\ ~token
    /\ pc = "returned"
    /\ tool = "get_time_entries_fixed"
    /\ args.start_date = args.end_date
    /\ args.start_date # EmptyStr
    /\ ~Strptime(args.start_date).ok

DateTools ==
    {"get_time_entries", "get_time_entries_fixed", "get_time_summary", "search_time_entries"}

\* the results that show the date range
ShowsRange(r) ==
    r.text \in {"No time entries found", "No time entries found matching",
                "Time Entries", "Time Summary", "Time Entries matching"}

\* the invocation got past the date defaults
Resolved == tool \in DateTools /\ session # "none"

BothSupplied == args.start_date # EmptyStr /\ args.end_date # EmptyStr

\* C9: in every date-range tool, with start_date and end_date both supplied
\* the resolved range is the supplied pair, whatever today is: the range the
\* result shows is the pair and, when the two dates differ, so is the range
\* of the entry query.
C9_BothSuppliedUnchanged ==
    (Resolved /\ BothSupplied) =>
        /\ loc.start_date = args.start_date
        /\ loc.end_date = args.end_date
        /\ (pc = "returned" /\ ShowsRange(result)) =>
              /\ result.start = args.start_date
              /\ result.end = args.end_date
        /\ args.start_date # args.end_date =>
              \A i \in ReqIndices :
                  Req(i).op = "get_time_entries" =>
                      Req(i).params = <<args.start_date, args.end_date>>

\* C9 witness: the fixed listing, called on the second day with two
\* different dates, one of them written without padding, shows entries.
C9_Witness ==
    /\ tool = "get_time_entries_fixed"
    /\ pc = "returned"
    /\ BothSupplied
    /\ args.start_date # args.end_date
    /\ Len(args.start_date) = 8
    /\ loc.now = FirstDay + 1
    /\ result.text = "Time Entries"

\* "2024-01-31" and "2024-02-23"
Jan31 == <<50, 48, 50, 52, 45, 48, 49, 45, 51, 49>>
Feb23 == <<50, 48, 50, 52, 45, 48, 50, 45, 50, 51>>

\* C10: the date defaults: with neither date supplied end is today and start
\* is today minus the window; with only end_date supplied start is end_date
\* minus the window; with only start_date supplied end is today.  The window
\* is 30 days for the description search and 7 days for the listings and the
\* summary (from 2024-03-01 that is 2024-01-31 and 2024-02-23).
C10_DateDefaults ==
    Resolved =>
        LET window == IF tool = "search_time_entries" THEN 30 ELSE 7
        IN  /\ (args.start_date = EmptyStr /\ args.end_date = EmptyStr) =>
                  /\ loc.end_date = Strftime(loc.now)
                  /\ loc.start_date = Strftime(loc.now - window)
                  /\ Strptime(loc.end_date).day - Strptime(loc.start_date).day = window
                  /\ loc.now = DaysFromCivil(2024, 3, 1) =>
                        loc.start_date = (IF window = 30 THEN Jan31 ELSE Feb23)
            /\ (args.start_date = EmptyStr /\ args.end_date # EmptyStr) =>
                  /\ loc.end_date = args.end_date
                  /\ Strptime(args.end_date).ok
                  /\ Strptime(loc.start_date).ok
                  /\ Strptime(loc.start_date).day = Strptime(args.end_date).day - window
                  /\ loc.start_date = Strftime(Strptime(loc.start_date).day)
            /\ (args.start_date # EmptyStr /\ args.end_date = EmptyStr) =>
                  /\ loc.start_date = args.start_date
                  /\ loc.end_date = Strftime(loc.now)

\* C10 witness: the description search, called with only an end date, has
\* queried the entries from 30 days before it.
C10_Witness ==
    /\ tool = "search_time_entries"
    /\ args.start_date = EmptyStr
    /\ args.end_date = Strftime(FirstDay + 3)
    /\ \E i \in ReqIndices :
          /\ Req(i).op = "get_time_entries"
          /\ Req(i).params = <<Strftime(FirstDay + 3 - 30), args.end_date>>

\* the entry query of the invocation was answered with a list, which the
\* client returned after its project filter
GotEntries(i) ==
    /\ i \in ReqIndices
    /\ Req(i).op = "get_time_entries"
    /\ ~Req(i).out.raised
    /\ Req(i).out.val.tag = "list"

ReturnedEntries(i) == Req(i).out.val.val

\* C11: in each of the four date-range tools, when the resolved start_date
\* equals end_date (and is a date), the entry query goes out over the window
\* from start_date minus 2 days through end_date plus 2 days.
C11_SingleDayExpanded ==
    ( /\ Resolved
      /\ loc.start_date = loc.end_date
      /\ Strptime(loc.start_date).ok )
    => \A i \in ReqIndices :
          Req(i).op = "get_time_entries" =>
              Req(i).params = <<Strftime(Strptime(loc.start_date).day - 2),
                                Strftime(Strptime(loc.end_date).day + 2)>>

\* the returned entries whose start[:10] is the day d
OnDay(es, d) == SelectSeq(es, LAMBDA e : SubSeq(e.start, 1, 10) = d)

\* C12: when get_time_entries_fixed is called for a single day d and the
\* entry query is answered, the result shows exactly the returned entries
\* whose start[:10] equals d, in the order returned: none of another day is
\* shown, none of day d is discarded, and with no entry on d the result is
\* the no-entries text.
C12_SingleDayRoundTrip ==
    ( /\ tool = "get_time_entries_fixed"
      /\ pc = "returned"
      /\ loc.start_date = loc.end_date
      /\ GotEntries(Len(reqs)) )
    => IF OnDay(ReturnedEntries(Len(reqs)), loc.start_date) = << >>
       THEN result.text = "No time entries found"
       ELSE /\ result.text = "Time Entries"
            /\ result.shown = OnDay(ReturnedEntries(Len(reqs)), loc.start_date)

\* C12 witness: the fixed listing was asked for 2024-03-01, the backend
\* returned entries of the day before, of the day and of the day after, and
\* the result shows the two entries of the day.
C12_Witness ==
    /\ tool = "get_time_entries_fixed"
    /\ pc = "returned"
    /\ args.start_date = Strftime(FirstDay)
    /\ args.end_date = Strftime(FirstDay)
    /\ GotEntries(Len(reqs))
    /\ \E j, k, m \in 1..Len(ReturnedEntries(Len(reqs))) :
          /\ SubSeq(ReturnedEntries(Len(reqs))[j].start, 1, 10) = Strftime(FirstDay - 1)
          /\ SubSeq(ReturnedEntries(Len(reqs))[k].start, 1, 10) = Strftime(FirstDay)
          /\ SubSeq(ReturnedEntries(Len(reqs))[m].start, 1, 10) = Strftime(FirstDay + 1)
    /\ result.text = "Time Entries"
    /\ Len(result.shown) < Len(ReturnedEntries(Len(reqs)))

\* C13: when get_time_entries_fixed is called for a range of several days,
\* every entry it shows has a start[:10] between start_date and end_date in
\* string order, whatever the backend returned.
C13_MultiDayFiltered ==
    ( /\ tool = "get_time_entries_fixed"
      /\ pc = "returned"
      /\ loc.start_date # loc.end_date
      /\ result.text = "Time Entries" )
    => \A k \in 1..Len(result.shown) :
          /\ StrLE(loc.start_date, SubSeq(result.shown[k].start, 1, 10))
          /\ StrLE(SubSeq(result.shown[k].start, 1, 10), loc.end_date)

\* the results that carry date groups
Grouped == pc = "returned" /\ result.text \in {"Time Entries", "Time Entries matching"}

\* s reads "<h>h <m>m" with h and m written in decimal and m below 60
ReadsHM(s, h, m) ==
    \E i \in 2..(Len(s) - 3) :
        /\ s[i] = 104 /\ s[i + 1] = 32 /\ s[Len(s)] = 109
        /\ AllDigits(SubSeq(s, 1, i - 1))
        /\ AllDigits(SubSeq(s, i + 2, Len(s) - 1))
        /\ DigitsValue(SubSeq(s, 1, i - 1)) = h
        /\ DigitsValue(SubSeq(s, i + 2, Len(s) - 1)) = m

\* C14: in the entry listings every entry with a duration d >= 0, zero
\* included, is shown with "{d div 3600}h {(d mod 3600) div 60}m".
C14_DurationFormat ==
    Grouped =>
        \A k \in 1..Len(result.groups) :
            \A j \in 1..Len(result.groups[k].lines) :
                LET line == result.groups[k].lines[j]
                    d == line.entry.duration
                IN  d >= 0 => ReadsHM(line.duration_str, d \div 3600, (d % 3600) \div 60)

RECURSIVE SeqSum(_)
SeqSum(s) == IF Len(s) = 0 THEN 0 ELSE Head(s) + SeqSum(Tail(s))

\* what each entry of es counts for: its duration when positive, else 0
Counted(es) ==
    [i \in 1..Len(es) |-> IF es[i].duration > 0 THEN es[i].duration ELSE 0]

\* the entries of the lines of a date group
GroupEntries(g) == [j \in 1..Len(g.lines) |-> g.lines[j].entry]

\* C15: for every list of entries the formatter is given, each date group's
\* total is the sum of the positive durations of its entries (an entry with
\* duration <= 0 adds 0), the group totals add up to the total over the
\* entries with duration > 0, which is the search's overall total, and in
\* the summary the project totals add up to the grand total, the same sum.
C15_TotalsAgree ==
    /\ Grouped =>
          /\ \A k \in 1..Len(result.groups) :
                result.groups[k].daily_total
                    = SeqSum(Counted(GroupEntries(result.groups[k])))
          /\ SeqSum([k \in 1..Len(result.groups) |-> result.groups[k].daily_total])
                = SeqSum(Counted(result.shown))
          /\ result.text = "Time Entries matching" =>
                result.total_matching_time = SeqSum(Counted(result.shown))
    /\ (pc = "returned" /\ result.text = "Time Summary") =>
          /\ result.grand_total = SeqSum(Counted(result.shown))
          /\ SeqSum([k \in 1..Len(result.rows) |-> result.rows[k].total_seconds])
                = result.grand_total

\* C15 witness: the search formatted entries of two dates, one of them
\* running and one of zero seconds, and the total is positive.
C15_Witness ==
    /\ pc = "returned"
    /\ result.text = "Time Entries matching"
    /\ Len(result.groups) >= 2
    /\ \E i, j \in 1..Len(result.shown) :
          result.shown[i].duration = -1 /\ result.shown[j].duration = 0
    /\ result.total_matching_time > 0

\* the tenths a text "<digits>.<digit>" denotes
TenthsOf(s) == 10 * DigitsValue(SubSeq(s, 1, Len(s) - 2)) + (s[Len(s)] - Zero)

ReadsTenths(s) ==
    /\ Len(s) >= 3
    /\ s[Len(s) - 1] = 46
    /\ AllDigits(SubSeq(s, 1, Len(s) - 2))
    /\ IsDigit(s[Len(s)])

Abs(x) == IF x < 0 THEN -x ELSE x

\* C16: in the summary each project's percentage is written with one
\* decimal and is the tenth nearest to total / grand_total * 100 (0 when the
\* grand total is 0), and when there are project totals the percentages
\* shown add up to 100.0 within 0.1 times the number of projects.
C16_Percentages ==
    (pc = "returned" /\ result.text = "Time Summary") =>
        /\ \A k \in 1..Len(result.rows) :
              /\ ReadsTenths(result.rows[k].percentage)
              /\ IF result.grand_total > 0
                 THEN 2 * Abs(TenthsOf(result.rows[k].percentage) * result.grand_total
                              - 1000 * result.rows[k].total_seconds)
                          <= result.grand_total
                 ELSE TenthsOf(result.rows[k].percentage) = 0
        /\ Len(result.rows) > 0 =>
              Abs(SeqSum([k \in 1..Len(result.rows) |->
                            TenthsOf(result.rows[k].percentage)]) - 1000)
                  <= Len(result.rows)

\* C16 witness: a summary of three projects whose percentages, as shown, do
\* not add up to 100.0.
C16_Witness ==
    /\ pc = "returned"
    /\ result.text = "Time Summary"
    /\ Len(result.rows) = 3
    /\ SeqSum([k \in 1..Len(result.rows) |-> TenthsOf(result.rows[k].percentage)]) # 1000

\* the entries a date tool has to format: those the client returned, for the
\* search those matching the query, for the fixed listing of a single day
\* those of the day
ToFormat ==
    IF tool = "search_time_entries"
    THEN SelectSeq(ReturnedEntries(Len(reqs)), LAMBDA e : e.matches)
    ELSE IF tool = "get_time_entries_fixed" /\ loc.start_date = loc.end_date
    THEN OnDay(ReturnedEntries(Len(reqs)), loc.start_date)
    ELSE ReturnedEntries(Len(reqs))

\* no project of the list has the entry's project_id (null included)
Unresolvable(e, ps) == \A k \in 1..Len(ps) : ps[k].id # e.project_id

\* C17: in the two listings, the search and the summary, an entry whose
\* project_id is null or is the id of no project of the fetched list is not
\* dropped and raises no error: the listings and the search show it in the
\* group of its date under "No project" and count it in the daily total, and
\* the summary counts the completed ones under "No project" and in the grand
\* total.
C17_UnresolvedKept ==
    ( /\ tool \in DateTools
      /\ pc = "returned"
      /\ GotProjects(1)
      /\ GotEntries(Len(reqs)) )
    => \A i \in 1..Len(ToFormat) :
          Unresolvable(ToFormat[i], FetchedProjects(1)) =>
              IF tool = "get_time_summary"
              THEN /\ result.text = "Time Summary"
                   /\ result.grand_total = SeqSum(Counted(ToFormat))
                   /\ ToFormat[i].duration > 0 =>
                         \E k \in 1..Len(result.rows) :
                             /\ result.rows[k].name = "No project"
                             /\ result.rows[k].total_seconds
                                   = SeqSum(Counted(SelectSeq(ToFormat,
                                        LAMBDA e : Unresolvable(e, FetchedProjects(1)))))
              ELSE /\ result.text \in {"Time Entries", "Time Entries matching"}
                   /\ \E k \in 1..Len(result.groups) :
                         /\ result.groups[k].date = SubSeq(ToFormat[i].start, 1, 10)
                         /\ \E j \in 1..Len(result.groups[k].lines) :
                               /\ result.groups[k].lines[j].entry = ToFormat[i]
                               /\ result.groups[k].lines[j].project_name = "No project"
                         /\ result.groups[k].daily_total
                               = SeqSum(Counted(SelectSeq(ToFormat,
                                    LAMBDA e : SubSeq(e.start, 1, 10)
                                               = SubSeq(ToFormat[i].start, 1, 10))))

\* C17 witness: the summary, with three projects fetched, got a completed
\* entry without a project and an entry of a project that is not in the
\* list, and shows a "No project" row.
C17_Witness ==
    /\ tool = "get_time_summary"
    /\ pc = "returned"
    /\ GotProjects(1)
    /\ Len(FetchedProjects(1)) = 3
    /\ GotEntries(Len(reqs))
    /\ \E i, j \in 1..Len(ToFormat) :
          /\ ToFormat[i].project_id = NoneId /\ ToFormat[i].duration > 0
          /\ ToFormat[j].project_id = 9
    /\ result.text = "Time Summary"
    /\ \E k \in 1..Len(result.rows) : result.rows[k].name = "No project"

NameTools ==
    {"get_time_entries", "get_time_entries_fixed", "get_time_summary",
     "start_timer", "get_project_tasks", "create_project_task"}

\* the tools that fetch the workspaces before they look the name up
WorkspaceFirst == {"start_timer", "get_project_tasks", "create_project_task"}

\* the invocation has returned a text that reports no exception
ReturnedNormally == pc = "returned" /\ "exc" \notin DOMAIN result

\* the invocation was given a name that no project of the backend has
UnknownName ==
    /\ tool \in NameTools
    /\ args.project_name # ""
    /\ ~NameListed(projects, args.project_name)

\* no request of the invocation queries the entries or changes the backend
NoQueryNoMutation ==
    \A i \in ReqIndices :
        /\ Req(i).method = "GET"
        /\ Req(i).op \notin {"get_time_entries", "start_timer", "stop_timer", "create_task"}

\* avail lists the names of ps in the order of ps, each name at least once
ListsNames(avail, ps) ==
    /\ \A k \in 1..Len(ps) : \E j \in 1..Len(avail) : avail[j] = ps[k].name
    /\ \A j \in 1..Len(avail) : NameListed(ps, avail[j])
    /\ \A i, j \in 1..Len(avail) :
          (i < j /\ avail[i] # avail[j]) =>
              \E a, b \in 1..Len(ps) :
                  a < b /\ ps[a].name = avail[i] /\ ps[b].name = avail[j]

\* C18 as stated: in each of the six name-taking tools, a name that no
\* project has makes the invocation, when nothing fails, return the not-found
\* text with the name and the names of the project list in backend order,
\* and the invocation issues no entry query and no mutation.
C18_NotFoundEverywhere ==
    (UnknownName /\ ReturnedNormally) =>
        /\ result.text = "Project not found. Available projects: "
        /\ result.name = args.project_name
        /\ ListsNames(result.available, projects)
        /\ NoQueryNoMutation

\* C18 amended: the same, provided that for start_timer, get_project_tasks
\* and create_project_task the workspace list is not empty (with no
\* workspace they return their no-workspaces text before the name is looked
\* up); get_time_entries and get_time_entries_fixed list each name once, in
\* the order of its first project, the other four list the name of every
\* project.
C18_NotFoundWithWorkspaces ==
    ( /\ UnknownName
      /\ ReturnedNormally
      /\ tool \in WorkspaceFirst => Len(workspaces) > 0 )
    => /\ result.text = "Project not found. Available projects: "
       /\ result.name = args.project_name
       /\ ListsNames(result.available, projects)
       /\ IF tool \in {"get_time_entries", "get_time_entries_fixed"}
          THEN \A i, j \in 1..Len(result.available) :
                  i # j => result.available[i] # result.available[j]
          ELSE result.available = [k \in 1..Len(projects) |-> projects[k].name]
       /\ NoQueryNoMutation

\* C18 witness: get_time_entries was called with "Nope" against three
\* projects, two of them named "Alpha", and lists "Alpha, Beta".
C18_Witness ==
    /\ tool = "get_time_entries"
    /\ pc = "returned"
    /\ args.project_name = "Nope"
    /\ Len(projects) = 3
    /\ result.text = "Project not found. Available projects: "
    /\ result.available = <<"Alpha", "Beta">>

\* the entry the first call of stop_current_timer read
ReadEntry == Req(1).out.val.val

\* C20: a stop mutation is only issued by stop_current_timer, as its third
\* call, after one read of the current entry and the workspaces; it targets
\* the id and the workspace id of the entry that read returned, whatever the
\* backend's running entry is by then, and the current entry is not read
\* again in the invocation.
C20_StopTargetsRead ==
    \A i \in ReqIndices :
        /\ Req(i).op = "stop_timer" =>
              /\ tool = "stop_current_timer"
              /\ i = 3
              /\ Req(1).op = "get_current_time_entry"
              /\ ~Req(1).out.raised
              /\ Req(1).out.val.tag = "dict"
              /\ Req(2).op = "get_workspaces"
              /\ Req(i).params = <<ReadEntry.workspace_id, ReadEntry.id>>
        /\ (tool = "stop_current_timer" /\ Req(i).op = "get_current_time_entry") => i = 1

\* C20 witness: between the read and the stop another client started an
\* entry (which closed the one read); the stop went out on the id read and
\* was answered 200, and the other client's entry is still running.
C20_Witness ==
    /\ tool = "stop_current_timer"
    /\ Len(reqs) >= 3
    /\ Req(3).op = "stop_timer"
    /\ Req(3).status = 200
    /\ Req(3).params = <<ReadEntry.workspace_id, ReadEntry.id>>
    /\ \E k \in Running(entries) :
          /\ entries[k].id # ReadEntry.id
          /\ entries[k].workspace_id \in ForeignWorkspaces
    /\ \E k \in 1..Len(entries) :
          entries[k].id = ReadEntry.id /\ entries[k].duration # -1

\* the invocation of get_all_tasks has fetched workspaces and projects, both
\* not empty, and has returned
AllTasksDone ==
    /\ tool = "get_all_tasks"
    /\ pc = "returned"
    /\ GotProjects(2)
    /\ Len(FetchedProjects(2)) > 0
    /\ Len(workspaces) > 0

\* the fetch of the tasks of the k-th project succeeded
TasksFetched(k) ==
    /\ ~Req(2 + k).out.raised
    /\ Req(2 + k).out.val.tag = "list"

\* the tasks the successful fetches returned, project by project
FetchedCounts ==
    [k \in 1..Len(FetchedProjects(2)) |->
        IF TasksFetched(k) THEN Len(Req(2 + k).out.val.val) ELSE 0]

Bearers(name) == {k \in 1..Len(projects) : projects[k].name = name}

\* C21: in each of the six name-taking tools, a name that several projects
\* share resolves to the id of the first of them in the list order: once the
\* invocation has resolved the name, the project id it holds is that id.
C21_FirstMatchEverywhere ==
    ( /\ tool \in NameTools
      /\ args.project_name # ""
      /\ loc.project_id # NoneId )
    => /\ Bearers(args.project_name) # {}
       /\ \A k \in Bearers(args.project_name) :
             (\A j \in Bearers(args.project_name) : k <= j) =>
                 loc.project_id = projects[k].id

\* stop_current_timer has read a running entry and then a workspace list
\* in which no workspace has the entry's workspace_id
UnknownWorkspace ==
    /\ tool = "stop_current_timer"
    /\ Len(reqs) >= 2
    /\ Req(1).op = "get_current_time_entry"
    /\ ~Req(1).out.raised
    /\ Req(1).out.val.tag = "dict"
    /\ Req(2).op = "get_workspaces"
    /\ ~Req(2).out.raised
    /\ Req(2).out.val.tag = "list"
    /\ \A k \in 1..Len(Req(2).out.val.val) :
          Req(2).out.val.val[k].id # ReadEntry.workspace_id

\* C22: when stop_current_timer has read a running entry whose workspace_id
\* is the id of no workspace of the list, it returns "Could not determine
\* workspace for current timer." without an error and after only the two
\* reads, no stop mutation; the step that returns it leaves the backend's
\* entries as they are, so the entry stays running.
C22_UnknownWorkspace ==
    /\ [](UnknownWorkspace =>
            /\ pc = "returned"
            /\ result = [text |-> "Could not determine workspace for current timer."]
            /\ Len(reqs) = 2
            /\ \A i \in ReqIndices : Req(i).method = "GET")
    /\ [][(UnknownWorkspace' /\ Len(reqs) = 1) => entries' = entries]_vars

\* C22 witness: another client's entry, in a workspace that is not in the
\* user's list, was read; the tool has returned and the entry is running.
C22_Witness ==
    /\ UnknownWorkspace
    /\ pc = "returned"
    /\ Len(Req(2).out.val.val) = 2
    /\ ReadEntry.workspace_id \in ForeignWorkspaces
    /\ \E k \in Running(entries) : entries[k].id = ReadEntry.id

\* the display name of an entry's project: the name of the project of ps
\* with the entry's project_id, "No project" when there is none
Label(e, ps) ==
    IF \E k \in 1..Len(ps) : ps[k].id = e.project_id
    THEN ps[CHOOSE k \in 1..Len(ps) : ps[k].id = e.project_id].name
    ELSE "No project"

\* the position in es of the first completed entry shown under this name
FirstEncounter(es, ps, name) ==
    CHOOSE i \in 1..Len(es) :
        /\ es[i].duration > 0 /\ Label(es[i], ps) = name
        /\ \A j \in 1..(i - 1) : ~(es[j].duration > 0 /\ Label(es[j], ps) = name)

\* C23: the rows of the summary are in descending order of total, and of
\* two projects with the same total the one whose first completed entry
\* comes earlier in the entries is shown first.
C23_SummaryOrder ==
    (pc = "returned" /\ result.text = "Time Summary") =>
        \A i, j \in 1..Len(result.rows) :
            i < j =>
                /\ result.rows[i].total_seconds >= result.rows[j].total_seconds
                /\ result.rows[i].name # result.rows[j].name
                /\ result.rows[i].total_seconds = result.rows[j].total_seconds =>
                      FirstEncounter(result.shown, projects, result.rows[i].name)
                          < FirstEncounter(result.shown, projects, result.rows[j].name)

\* C23 witness: a summary of two projects with the same total, from a list
\* that starts with an entry that is not completed; "Beta", met first, is
\* shown first.
C23_Witness ==
    /\ pc = "returned"
    /\ result.text = "Time Summary"
    /\ Len(result.rows) = 2
    /\ result.rows[1].total_seconds = result.rows[2].total_seconds
    /\ result.rows[1].name = "Beta"
    /\ Len(result.shown) = 3
    /\ result.shown[1].duration <= 0

\* the date key of an entry
KeyOf(e) ==
    IF Len(e.start) = 0
    THEN <<85, 110, 107, 110, 111, 119, 110, 32, 100, 97, 116, 101>>
    ELSE SubSeq(e.start, 1, 10)

\* a < b on strings
StrLT(a, b) == a # b /\ StrLE(a, b)

\* C24: in the two listings and the search the date groups partition the
\* entries by date key (start[:10], or "Unknown date" without a start): the
\* keys of the groups are those of the entries, each group holds exactly the
\* entries of its key in the order of the list, so every entry is in exactly
\* one group, and the groups come in ascending string order of their keys.
C24_DateGroups ==
    Grouped =>
        /\ \A i \in 1..Len(result.shown) :
              \E k \in 1..Len(result.groups) : result.groups[k].date = KeyOf(result.shown[i])
        /\ \A k \in 1..Len(result.groups) :
              /\ GroupEntries(result.groups[k])
                    = SelectSeq(result.shown, LAMBDA e : KeyOf(e) = result.groups[k].date)
              /\ Len(result.groups[k].lines) > 0
        /\ \A k, m \in 1..Len(result.groups) :
              k < m => StrLT(result.groups[k].date, result.groups[m].date)
        /\ SeqSum([k \in 1..Len(result.groups) |-> Len(result.groups[k].lines)])
              = Len(result.shown)

\* C24 witness: three entries came in the order: no start, 2024-03-02,
\* 2024-03-01; the groups are 2024-03-01, 2024-03-02, "Unknown date".
C24_Witness ==
    /\ Grouped
    /\ Len(result.shown) = 3
    /\ Len(result.shown[1].start) = 0
    /\ KeyOf(result.shown[2]) = Strftime(FirstDay + 1)
    /\ KeyOf(result.shown[3]) = Strftime(FirstDay)
    /\ Len(result.groups) = 3
    /\ result.groups[1].date = Strftime(FirstDay)
    /\ result.groups[3].date = KeyOf(result.shown[1])

\* the call behind the i-th request raised, or its answer was unusable
RequestFailed(i) == Req(i).out.raised \/ Req(i).out.val.tag = "malformed"

\* the per-project task fetch of get_all_tasks
IsProjectFetch(i) == tool = "get_all_tasks" /\ Req(i).op = "get_tasks"

\* C25: within one invocation no request is issued again after it failed
\* and at most one mutating request is issued; a failed call is the
\* invocation's last and the invocation ends with an error text, except the
\* per-project task fetch of get_all_tasks, after which the invocation moves
\* on to other projects.
C25_NoRetry ==
    /\ Cardinality({i \in ReqIndices : Req(i).op \in Mutating}) <= 1
    /\ \A i \in ReqIndices :
          RequestFailed(i) =>
              /\ \A j \in ReqIndices :
                    j > i => ~(Req(j).op = Req(i).op /\ Req(j).params = Req(i).params)
              /\ ~IsProjectFetch(i) =>
                    /\ i = Len(reqs)
                    /\ pc = "returned"
                    /\ "exc" \in DOMAIN result
                    /\ IF Req(i).out.raised THEN result.exc = Req(i).out.exc
                       ELSE result.exc.cls = "TypeError"

\* C25 witness: stop_current_timer read the entry and the workspaces, its
\* PATCH was answered 500, and it returned the error text after that one
\* mutating request while the entry is still running.
C25_Witness ==
    /\ tool = "stop_current_timer"
    /\ pc = "returned"
    /\ Len(reqs) = 3
    /\ Req(3).op = "stop_timer"
    /\ Req(3).status = 500
    /\ result.text = "Error stopping timer: "
    /\ Running(entries) # {}

\* C26: a tool's text starts with "Configuration error:" only when the API
\* token is missing: an invocation that ends with an error text has the
\* "Configuration error: " prefix exactly when there is no token, and every
\* other failure has the tool's own "Error ..." prefix.
C26_ConfigErrorOnlyToken ==
    (pc = "returned" /\ "exc" \in DOMAIN result) =>
        /\ result.text = "Configuration error: " <=> ~token
        /\ token => result.text = ErrorPrefix(tool)

ReadOnlyTools ==
    {"get_projects", "get_workspaces", "get_time_entries", "get_time_entries_fixed",
     "get_time_summary", "search_time_entries", "get_current_timer",
     "get_project_tasks", "get_all_tasks"}

\* a step of the invocation itself: its position or its requests change
HandlerStep == pc' # pc \/ reqs' # reqs

\* C27: every request of an invocation of one of the nine read-only tools
\* is a GET and none is a start, stop or create-task call, whether the
\* invocation succeeds or fails; and no step of such an invocation changes
\* the backend's projects, workspaces, entries or tasks.
C27_ReadOnly ==
    /\ [](tool \in ReadOnlyTools =>
            \A i \in ReqIndices : Req(i).method = "GET" /\ Req(i).op \notin Mutating)
    /\ [][(tool' \in ReadOnlyTools /\ HandlerStep) =>
             UNCHANGED <<projects, workspaces, entries, tasks>>]_vars

\* C27 witness: get_current_timer has shown the running entry, which is
\* still running on the backend.
C27_Witness ==
    /\ tool = "get_current_timer"
    /\ pc = "returned"
    /\ result.text = "**Currently Running Timer:**"
    /\ \E k \in Running(entries) : entries[k].id = result.entry.id

====
